---- MODULE Spec2Model ----
(***************************************************************************)
(* State-machine model of the YouTube playlist subsystem:                  *)
(*   modules/youtube_manager.py  (YouTubeManager, youtube_menu)            *)
(*   modules/quota_tracker.py    (QuotaTracker)                            *)
(* Strings whose content the code inspects (titles, keywords, error texts) *)
(* are sequences of one-character strings, so that `in` and .lower() are   *)
(* computed, not assumed.  Times are seconds; the clock starts at local    *)
(* midnight of day 0.                                                      *)
(***************************************************************************)
EXTENDS Integers, Sequences, FiniteSets, TLC

VARIABLES
    now,                \* datetime.now()
    pc,                 \* where the manager's caller stands: idle / rotate / crashed
    api_keys,           \* YouTubeManager.api_keys
    current_key_index,  \* YouTubeManager.current_key_index (0-based)
    youtube,            \* the credential the client handle is bound to
    api_keys_file,      \* data/api_keys.json
    quota_data,         \* QuotaTracker.quota_data
    quota_file,         \* data/quota_usage.json
    original_index,     \* rotate_api_key local
    working_key_found,  \* rotate_api_key local
    keys_tried,         \* rotate_api_key local
    rot_start_keys,     \* history: api_keys when the running/last rotate call began
    probe_log,          \* history: outcome of each credential's probe in that call
    last,               \* history: the last step's call, argument, result and probe class
    cache,              \* YouTubeManager.cache
    cache_file,         \* data/youtube_cache.json
    used_videos_file,   \* data/used_videos.json
    max_results,        \* smart_search parameter
    all_video_ids,      \* smart_search local
    used_videos,        \* smart_search local: the ledger as loaded at the start
    term_i,             \* smart_search: terms of the sample already done
    order_i,            \* smart_search: ranking orders of the term already done
    items,              \* smart_search: response.get("items", []) of the last search call
    item_i,             \* smart_search: items of the response already done
    quota_failed_at,    \* history: len(all_video_ids) when check_quota first failed in the run, else -1
    cache_key,          \* advanced search local
    duration_choice,    \* advanced search local
    channel_filter,     \* advanced search local
    video_ids,          \* advanced search local
    video_details_list, \* advanced search local
    response_items,     \* advanced search: response.get("items", []) of the last search call
    response_i,         \* advanced search: items of the response already done
    error_str,          \* advanced search local: str(e) of the failed search call
    retry,              \* advanced search local: retries of the rotate loop already done
    retry_log,          \* history: rotate_api_key calls and retried search calls of the
                        \* advanced search in progress
    searches_begun,     \* history: advanced searches, or direct lookups, begun so far
    playlist,           \* the identifiers the last advanced search built its playlist URL from
    rot_caller,         \* who called rotate_api_key: the key menu, the removal or the advanced search
    cache_read,         \* history: the cache entry whose value was last taken, and its age then
    tracker_call,       \* the direct QuotaTracker call under way: its arguments and what it returns
    records_begun,      \* history: direct record_usage calls begun so far
    recorded,           \* history: <<credential, cost, day>> of the record_usage calls since ledger_base
    ledger_base,        \* history: quota_data when the tracker was last loaded or cleaned
    ledger_done,        \* history: quota_data when the last tracker call completed
    playlists_file,     \* data/saved_playlists.json
    pl_call,            \* the last playlist call: its arguments and what it returned
    history_cleared,    \* history: whether clear_search_history ran, and the ledger it removed
    peer_quota_data     \* QuotaTracker.quota_data of a second process on the same files

keyVars   == <<api_keys, current_key_index, youtube, api_keys_file>>
trackVars == <<tracker_call, records_begun, recorded, ledger_base, ledger_done>>
quotaVars == <<quota_data, quota_file, trackVars>>
rotVars   == <<original_index, working_key_found, keys_tried, rot_start_keys, probe_log>>
cacheVars == <<cache, cache_file>>
ssVars    == <<max_results, all_video_ids, used_videos, term_i, order_i, items, item_i,
               quota_failed_at>>
advVars   == <<cache_key, duration_choice, channel_filter, video_ids, video_details_list,
               response_items, response_i, error_str, retry, retry_log, playlist, searches_begun>>
keySide   == <<keyVars, quotaVars, rotVars>>
plVars    == <<playlists_file, pl_call, history_cleared>>
searchSide == <<cacheVars, used_videos_file, plVars, ssVars>>
advSide   == <<advVars, rot_caller, cache_read>>
vars      == <<now, pc, keySide, last, searchSide, advSide, peer_quota_data>>

----------------------------------------------------------------------------
(* Bounds of the model *)

MaxDays == 1
MaxProbesOk == 3
SampleSize == 2
MaxItems == 1
QuotaLeft == 2
MaxResultsArg == 2
MaxSearches == 2
MaxRecords == 2
MaxWindow == 3

(* Program constants *)

cache_duration == 24 * 60 * 60
daily_limit == 10000
test_cost == 100
search_cost == 100
results_threshold == 5
max_found == 50
max_retries == 3
soft_limit == 9500
min_duration_seconds == 180
details_cost == 1
SecondsPerDay == 24 * 60 * 60

(* Small input sets *)

BootstrapKey == "K0"
Keys == {"K0", "K1", "K2"}
VideoIds == {"v1", "v2"}
TimePoints == {0} \cup {d * SecondsPerDay - 1 : d \in 1..MaxDays}
                  \cup {d * SecondsPerDay : d \in 1..MaxDays}

----------------------------------------------------------------------------
(* Python string primitives *)

UpperAlpha == <<"A","B","C","D","E","F","G","H","I","J","K","L","M",
                "N","O","P","Q","R","S","T","U","V","W","X","Y","Z">>
LowerAlpha == <<"a","b","c","d","e","f","g","h","i","j","k","l","m",
                "n","o","p","q","r","s","t","u","v","w","x","y","z">>

lower_char(c) ==
    IF \E i \in 1..26 : UpperAlpha[i] = c
    THEN LowerAlpha[CHOOSE i \in 1..26 : UpperAlpha[i] = c]
    ELSE c

\* str.lower()
lower(s) == [i \in 1..Len(s) |-> lower_char(s[i])]

\* Python's `sub in s` on strings
str_in(sub, s) ==
    \E k \in 0..(Len(s) - Len(sub)) :
        \A i \in 1..Len(sub) : s[k + i] = sub[i]

Range(s) == {s[i] : i \in 1..Len(s)}

\* list.pop(i), 0-based
list_pop(s, i) == [j \in 1..(Len(s) - 1) |-> IF j <= i THEN s[j] ELSE s[j + 1]]

----------------------------------------------------------------------------
(* Remote probe outcomes: success, an HttpError or another exception, the   *)
(* error carrying a message text.                                           *)

STR_quota   == <<"q", "u", "o", "t", "a">>
STR_invalid == <<"i", "n", "v", "a", "l", "i", "d">>

ErrorTexts == {
    <<"q", "u", "o", "t", "a", "E", "x", "c", "e", "e", "d", "e", "d">>,
    <<"k", "e", "y", "I", "n", "v", "a", "l", "i", "d">>,
    <<"I", "n", "v", "a", "l", "i", "d", " ", "Q", "u", "o", "t", "a">>,
    <<"b", "a", "c", "k", "e", "n", "d", "E", "r", "r", "o", "r">> }

ExceptionTexts == {
    <<"k", "e", "y", "I", "n", "v", "a", "l", "i", "d">> }

NoProbe == [kind |-> "none", text |-> <<>>]
ProbeOk == [kind |-> "ok", text |-> <<>>]
ProbeOutcomes ==
    {ProbeOk} \cup {[kind |-> "HttpError", text |-> t] : t \in ErrorTexts}
              \cup {[kind |-> "Exception", text |-> t] : t \in ExceptionTexts}

\* "quota" in error_str.lower()
is_quota_text(text) == str_in(STR_quota, lower(text))
\* "invalid" in error_str.lower()
is_invalid_text(text) == str_in(STR_invalid, lower(text))

\* lines 116-119 with the "invalid" test made before the "quota" test
classify_invalid_first(o) ==
    IF o.kind = "ok" THEN "ok"
    ELSE IF o.kind = "HttpError"
         THEN IF is_invalid_text(o.text) THEN "invalid"
              ELSE IF is_quota_text(o.text) THEN "quota"
              ELSE "other"
    ELSE "exception"

\* how the except clauses classify a failed probe
classify(o) ==
    IF o.kind = "ok" THEN "ok"
    ELSE IF o.kind = "HttpError"
         THEN IF is_quota_text(o.text) THEN "quota"
              ELSE IF is_invalid_text(o.text) THEN "invalid"
              ELSE "other"
    ELSE "exception"

ProbeClassTable == [o \in ProbeOutcomes |-> classify(o)]
probe_class(o) == ProbeClassTable[o]

----------------------------------------------------------------------------
(* QuotaTracker *)

NoFile == [exists |-> FALSE, data |-> <<>>]
FileOf(d) == [exists |-> TRUE, data |-> d]

\* the empty dict {}
EmptyDict == [k \in {} |-> 0]

\* datetime.strftime("%Y-%m-%d") of a time: the calendar-day key
strftime(t) == <<"ymd", t \div SecondsPerDay>>

\* a file opened with mode 'w' and not yet completely written: empty or cut
\* short, which json.load rejects
TornFile == [exists |-> TRUE, data |-> <<>>, torn |-> TRUE]
is_torn(file) == "torn" \in DOMAIN file

\* QuotaTracker._load_quota_data: a missing file, or one json.load raises
\* on, gives {}
load_quota_data(file) == IF file.exists /\ ~is_torn(file) THEN file.data ELSE EmptyDict

\* the record of a direct tracker call, before any was made
NoCall == [api_key |-> "", days |-> 0, cost |-> 0, total |-> 0]

\* record_usage with `=` in place of `+=` on line 37
record_usage_overwrite(qd, api_key, cost, t) ==
    LET today == strftime(t)
        others == IF api_key \in DOMAIN qd THEN qd[api_key] ELSE EmptyDict
    IN [k \in DOMAIN qd \cup {api_key} |->
           IF k = api_key
           THEN [d \in DOMAIN others \cup {today} |-> IF d = today THEN cost ELSE others[d]]
           ELSE qd[k]]

\* quota_data after record_usage(api_key, cost) at time t
record_usage(qd, api_key, cost, t) ==
    LET today == strftime(t)
        qd1 == IF api_key \in DOMAIN qd THEN qd
               ELSE [k \in DOMAIN qd \cup {api_key} |->
                        IF k = api_key THEN EmptyDict ELSE qd[k]]
        b1 == IF today \in DOMAIN qd1[api_key] THEN qd1[api_key]
              ELSE [d \in DOMAIN qd1[api_key] \cup {today} |->
                        IF d = today THEN 0 ELSE qd1[api_key][d]]
    IN [qd1 EXCEPT ![api_key] = [b1 EXCEPT ![today] = @ + cost]]

RECURSIVE usage_sum(_, _, _)
\* the loop of get_usage: `n` iterations starting at day ordinal `day`
usage_sum(buckets, day, n) ==
    IF n <= 0 THEN 0
    ELSE (IF <<"ymd", day>> \in DOMAIN buckets THEN buckets[<<"ymd", day>>] ELSE 0)
         + usage_sum(buckets, day - 1, n - 1)

\* get_usage with the window starting one day late
get_usage_skip_today(qd, api_key, days, t) ==
    IF api_key \notin DOMAIN qd THEN 0
    ELSE usage_sum(qd[api_key], (t \div SecondsPerDay) - 1, days)

\* get_usage with one loop iteration too many
get_usage_extra_day(qd, api_key, days, t) ==
    IF api_key \notin DOMAIN qd THEN 0
    ELSE usage_sum(qd[api_key], t \div SecondsPerDay, days + 1)

\* QuotaTracker.get_usage
get_usage(qd, api_key, days, t) ==
    IF api_key \notin DOMAIN qd THEN 0
    ELSE usage_sum(qd[api_key], t \div SecondsPerDay, days)

Max(a, b) == IF a >= b THEN a ELSE b

\* get_quota_status(api_key)["remaining_today"]
remaining_today(qd, api_key, t) == Max(0, daily_limit - get_usage(qd, api_key, 1, t))

----------------------------------------------------------------------------
(* YouTubeManager: credentials *)

\* _load_api_keys(initial_key).  has_attr: whether self.api_keys_file is
\* already assigned when the method runs; reading a missing attribute raises
\* AttributeError inside the try, which `except Exception: pass` swallows.
load_api_keys(initial_key, has_attr, file) ==
    IF has_attr /\ file.exists
    THEN IF initial_key \in Range(file.data) THEN file.data
         ELSE Append(file.data, initial_key)
    ELSE <<initial_key>>

\* __init__ calls _load_api_keys on line 44; api_keys_file is assigned on line 52
init_has_api_keys_file == FALSE

\* _build_youtube_client: api_keys[current_key_index]; raises IndexError out of range
index_ok(keys, idx) == 0 <= idx /\ idx < Len(keys)
\* a client always built for the first credential of the list
build_youtube_client_first(keys, idx) == keys[1]
build_youtube_client(keys, idx) == keys[idx + 1]

\* test_api_key: the low-quota guard before the probe
LowQuota(qd, api_key, t) == remaining_today(qd, api_key, t) < test_cost

\* test_api_key with the except clauses falling through to `return True`
test_api_key_result_no_return(qd, api_key, o, t) == ~LowQuota(qd, api_key, t)

\* test_api_key: its result, given the probe's outcome
test_api_key_result(qd, api_key, o, t) ==
    IF LowQuota(qd, api_key, t) THEN FALSE ELSE o.kind = "ok"

\* test_api_key where a quota rejection charges the probe's cost, not the ceiling
test_api_key_ledger_flat_cost(qd, api_key, o, t) ==
    IF LowQuota(qd, api_key, t) THEN qd
    ELSE IF o.kind = "ok" \/ probe_class(o) = "quota"
         THEN record_usage(qd, api_key, test_cost, t)
    ELSE qd

\* test_api_key: the ledger it leaves
test_api_key_ledger(qd, api_key, o, t) ==
    IF LowQuota(qd, api_key, t) THEN qd
    ELSE IF o.kind = "ok" THEN record_usage(qd, api_key, test_cost, t)
    ELSE IF probe_class(o) = "quota"
         THEN record_usage(qd, api_key, daily_limit, t)
    ELSE qd

\* test_api_key with the probe issued ahead of the quota check of lines 148-151
test_api_key_probes_unguarded(qd, api_key, t) == TRUE

\* whether test_api_key issues the remote probe
test_api_key_probes(qd, api_key, t) == ~LowQuota(qd, api_key, t)

\* history: how the probe of a test_api_key call ended, "none" when none was issued
probe_seen(qd, api_key, o, t) ==
    IF test_api_key_probes(qd, api_key, t) THEN probe_class(o) ELSE "none"

RECURSIVE SumOver(_, _, _, _)
SumOver(qd, ks, t, unit) ==
    IF ks = {} THEN 0
    ELSE LET k == CHOOSE x \in ks : TRUE
         IN ((get_usage(qd, k, 1, t) % daily_limit) \div unit) + SumOver(qd, ks \ {k}, t, unit)

\* bound: the successful validation probes today's ledger holds, all credentials
ProbesGranted(qd, t) == SumOver(qd, DOMAIN qd, t, test_cost)

\* what every step records in `last`: the call, its argument, what it
\* returned ("" while it runs) and how its probe, if any, ended
Done(op, arg, result, o) ==
    last' = [op |-> op, arg |-> arg, result |-> result, outcome |-> o]

\* the history of the last rotate call is dropped when another call begins
NoRotateHistory ==
    /\ rot_start_keys' = <<>>
    /\ probe_log' = [k \in Keys |-> NoProbe]
    /\ UNCHANGED <<original_index, working_key_found, keys_tried>>

\* add_api_key(new_key)
add_api_key(new_key, o) ==
    /\ pc = "idle"
    /\ (o.kind = "ok" => ProbesGranted(quota_data, now) < MaxProbesOk)
    /\ IF new_key \notin Range(api_keys)
       THEN /\ quota_data' = test_api_key_ledger(quota_data, new_key, o, now)
            /\ UNCHANGED trackVars
            /\ quota_file' = IF quota_data' # quota_data THEN FileOf(quota_data')
                             ELSE quota_file
            /\ IF test_api_key_result(quota_data, new_key, o, now)
               THEN /\ api_keys' = Append(api_keys, new_key)
                    /\ api_keys_file' = FileOf(api_keys')
                    /\ Done("add", new_key, "True", probe_seen(quota_data, new_key, o, now))
               ELSE /\ UNCHANGED <<api_keys, api_keys_file>>
                    /\ Done("add", new_key, "False", probe_seen(quota_data, new_key, o, now))
       ELSE /\ UNCHANGED <<api_keys, api_keys_file, quotaVars>>
            /\ Done("add", new_key, "False", "none")
    /\ NoRotateHistory
    /\ UNCHANGED <<now, peer_quota_data, pc, current_key_index, youtube, searchSide, advSide>>

----------------------------------------------------------------------------
(* rotate_api_key, one loop iteration per step *)

\* line 86 without the `+ 1`
next_index_same(idx, n) == idx % n

\* line 86: the index moves one place round the ring
next_index(idx, n) == (idx + 1) % n

\* the `while` condition with `<=` in place of `<`
rotate_continues_inclusive == Cardinality(keys_tried) <= Len(api_keys)

\* the `while` condition
rotate_continues == Cardinality(keys_tried) < Len(api_keys)

\* where the caller of rotate_api_key resumes when the call returns `result`
rotate_returns(caller, result) ==
    pc' = CASE caller = "adv" -> (IF result THEN "adv_retry" ELSE "adv_fallback")
            [] caller = "remove" -> (IF result THEN "idle" ELSE "remove_reset")
            [] OTHER -> "idle"

\* lines 77-82, called by `caller`
rotate_enter(caller) ==
    /\ rot_start_keys' = api_keys
    /\ probe_log' = [k \in Keys |-> NoProbe]
    /\ rot_caller' = caller
    /\ IF Len(api_keys) <= 1
       THEN /\ Done("rotate", "", "False", "none")
            /\ rotate_returns(caller, FALSE)
            /\ UNCHANGED <<original_index, working_key_found, keys_tried>>
       ELSE /\ pc' = "rotate"
            /\ original_index' = current_key_index
            /\ working_key_found' = FALSE
            /\ keys_tried' = {}
            /\ Done("rotate", "", "", "none")

\* rotate_api_key() called from the key menu
rotate_api_key_begin ==
    /\ pc = "idle"
    /\ rotate_enter("menu")
    /\ UNCHANGED <<now, peer_quota_data, keyVars, quotaVars, searchSide, advVars, cache_read>>

\* lines 85-133: one pass through the loop body
rotate_api_key_step(o) ==
    /\ pc = "rotate"
    /\ rotate_continues
    /\ LET idx == next_index(current_key_index, Len(api_keys))
           current_key == api_keys[idx + 1]
       IN IF current_key \in keys_tried
          THEN /\ current_key_index' = idx
               /\ UNCHANGED <<pc, api_keys, youtube, api_keys_file, working_key_found,
                              keys_tried, probe_log, last>>
          ELSE /\ keys_tried' = keys_tried \cup {current_key}
               /\ youtube' = build_youtube_client(api_keys, idx)
               /\ probe_log' = [probe_log EXCEPT ![current_key] = o]
               /\ CASE probe_class(o) = "ok" ->
                         /\ working_key_found' = TRUE
                         /\ current_key_index' = idx
                         /\ api_keys_file' = FileOf(api_keys)
                         /\ rotate_returns(rot_caller, TRUE)
                         /\ Done("rotate", "", "True", "ok")
                         /\ UNCHANGED api_keys
                    [] probe_class(o) = "invalid" ->
                         /\ api_keys' = list_pop(api_keys, idx)
                         /\ IF Len(api_keys') = 0
                            THEN /\ current_key_index' = idx
                                 /\ rotate_returns(rot_caller, FALSE)
                                 /\ Done("rotate", "", "False", "invalid")
                            ELSE /\ current_key_index' = idx % Len(api_keys')
                                 /\ UNCHANGED <<pc, last>>
                         /\ UNCHANGED <<api_keys_file, working_key_found>>
                    [] OTHER ->
                         /\ current_key_index' = idx
                         /\ UNCHANGED <<pc, api_keys, api_keys_file, working_key_found, last>>
    /\ UNCHANGED <<now, peer_quota_data, quotaVars, original_index, rot_start_keys, searchSide, advSide>>

\* lines 135-142: the ring is exhausted
rotate_api_key_end ==
    /\ pc = "rotate"
    /\ ~rotate_continues
    /\ current_key_index' = original_index
    /\ IF index_ok(api_keys, original_index)
       THEN /\ youtube' = build_youtube_client(api_keys, original_index)
            /\ rotate_returns(rot_caller, FALSE)
            /\ Done("rotate", "", "False", "none")
       ELSE /\ pc' = "crashed"
            /\ Done("rotate", "", "IndexError", "none")
            /\ UNCHANGED youtube
    /\ UNCHANGED <<now, peer_quota_data, api_keys, api_keys_file, quotaVars, rotVars, searchSide, advSide>>

----------------------------------------------------------------------------
(* manage_api_keys, option 3: manual removal *)

\* what the user can type at line 695, as the index it denotes (line 697);
\* -1 and Len(api_keys) are selections outside the list
KeyNumbers == -1..3

\* lines 682-706: the selection, the removal and the call of rotate_api_key
remove_api_key(idx) ==
    /\ pc = "idle"
    /\ idx <= Len(api_keys)
    /\ IF Len(api_keys) <= 1 \/ ~index_ok(api_keys, idx)
       THEN /\ Done("remove", "", "refused", "none")
            /\ NoRotateHistory
            /\ UNCHANGED <<pc, api_keys, api_keys_file, rot_caller>>
       ELSE /\ api_keys' = list_pop(api_keys, idx)
            /\ api_keys_file' = FileOf(api_keys')
            /\ IF idx = current_key_index
               THEN \* rotate_api_key() on the shortened list, lines 77-82
                    /\ rot_start_keys' = api_keys'
                    /\ probe_log' = [k \in Keys |-> NoProbe]
                    /\ rot_caller' = "remove"
                    /\ IF Len(api_keys') <= 1
                       THEN /\ Done("rotate", "", "False", "none")
                            /\ rotate_returns("remove", FALSE)
                            /\ UNCHANGED <<original_index, working_key_found, keys_tried>>
                       ELSE /\ pc' = "rotate"
                            /\ original_index' = current_key_index
                            /\ working_key_found' = FALSE
                            /\ keys_tried' = {}
                            /\ Done("rotate", "", "", "none")
               ELSE /\ Done("remove", api_keys[idx + 1], "removed", "none")
                    /\ NoRotateHistory
                    /\ UNCHANGED <<pc, rot_caller>>
    /\ UNCHANGED <<now, peer_quota_data, current_key_index, youtube, quotaVars, searchSide, advVars, cache_read>>

\* lines 708-711: rotate_api_key returned False
remove_api_key_reset ==
    /\ pc = "remove_reset"
    /\ current_key_index' = 0
    /\ youtube' = build_youtube_client(api_keys, 0)
    /\ pc' = "idle"
    /\ rot_caller' = "menu"
    /\ Done("remove", "", "reset", "none")
    /\ UNCHANGED <<now, peer_quota_data, api_keys, api_keys_file, quotaVars, rotVars, searchSide, advVars,
                   cache_read>>

----------------------------------------------------------------------------
(* Response cache and soft quota counter *)

\* the default cache of ensure_data_dir / load_cache, created at time t
default_cache(t) ==
    [search_cache |-> EmptyDict, video_details_cache |-> EmptyDict,
     channel_cache |-> EmptyDict, last_quota_reset |-> t, quota_used |-> 0]

\* load_cache
load_cache(file, t) == IF file.exists THEN file.data ELSE default_cache(t)

\* dict.setdefault(key, value): an entry that exists is kept
dict_setdefault(d, key, value) ==
    [k \in DOMAIN d \cup {key} |-> IF k \in DOMAIN d THEN d[k] ELSE value]

\* dict[key] = value
dict_put(d, key, value) ==
    [k \in DOMAIN d \cup {key} |-> IF k = key THEN value ELSE d[k]]

\* the age test with `<=` in place of `<`
is_fresh_inclusive(timestamp, t) == (t - timestamp) <= cache_duration

\* the age test of the cache readers: (now - cache_time).total_seconds() < cache_duration
is_fresh(timestamp, t) == (t - timestamp) < cache_duration

\* check_quota testing the credential's ceiling in place of the soft ceiling
check_quota_hard_ceiling(c, units_needed, t) ==
    IF (t - c.last_quota_reset) >= 24 * 60 * 60
    THEN [ok |-> TRUE, cache |-> [c EXCEPT !.last_quota_reset = t, !.quota_used = 0]]
    ELSE IF c.quota_used + units_needed > daily_limit
         THEN [ok |-> FALSE, cache |-> c]
    ELSE [ok |-> TRUE, cache |-> [c EXCEPT !.quota_used = @ + units_needed]]

\* check_quota resetting when the calendar day has changed
check_quota_by_date(c, units_needed, t) ==
    IF (t \div SecondsPerDay) # (c.last_quota_reset \div SecondsPerDay)
    THEN [ok |-> TRUE, cache |-> [c EXCEPT !.last_quota_reset = t, !.quota_used = 0]]
    ELSE IF c.quota_used + units_needed > soft_limit
         THEN [ok |-> FALSE, cache |-> c]
    ELSE [ok |-> TRUE, cache |-> [c EXCEPT !.quota_used = @ + units_needed]]

\* check_quota(units_needed) at time t: what it returns and the cache it leaves
check_quota(c, units_needed, t) ==
    IF (t - c.last_quota_reset) >= 24 * 60 * 60
    THEN [ok |-> TRUE, cache |-> [c EXCEPT !.last_quota_reset = t, !.quota_used = 0]]
    ELSE IF c.quota_used + units_needed > soft_limit
         THEN [ok |-> FALSE, cache |-> c]
    ELSE [ok |-> TRUE, cache |-> [c EXCEPT !.quota_used = @ + units_needed]]

----------------------------------------------------------------------------
(* Video details *)

\* str.strip("PT")
RECURSIVE lstrip_PT(_)
lstrip_PT(s) == IF Len(s) > 0 /\ s[1] \in {"P", "T"} THEN lstrip_PT(Tail(s)) ELSE s
RECURSIVE rstrip_PT(_)
rstrip_PT(s) ==
    IF Len(s) > 0 /\ s[Len(s)] \in {"P", "T"} THEN rstrip_PT(SubSeq(s, 1, Len(s) - 1)) ELSE s
strip_PT(s) == rstrip_PT(lstrip_PT(s))

Digits == <<"0", "1", "2", "3", "4", "5", "6", "7", "8", "9">>
isdigit(ch) == \E i \in 1..10 : Digits[i] = ch
digit_value(ch) == (CHOOSE i \in 1..10 : Digits[i] = ch) - 1

RECURSIVE duration_loop(_, _, _, _, _, _, _)
\* the `for ch in dur` loop; num is int(num), has_num whether num is non-empty
duration_loop(dur, i, num, has_num, hours, minutes, seconds) ==
    IF i > Len(dur) THEN hours * 3600 + minutes * 60 + seconds
    ELSE LET ch == dur[i]
             v == IF has_num THEN num ELSE 0
         IN IF isdigit(ch)
            THEN duration_loop(dur, i + 1, num * 10 + digit_value(ch), TRUE,
                               hours, minutes, seconds)
            ELSE duration_loop(dur, i + 1, 0, FALSE,
                               IF ch = "H" THEN v ELSE hours,
                               IF ch = "M" THEN v ELSE minutes,
                               IF ch = "S" THEN v ELSE seconds)

\* parse_iso8601_duration
parse_iso8601_duration(dur) == duration_loop(strip_PT(dur), 1, 0, FALSE, 0, 0, 0)

T_HindiRemixHits == <<"H", "i", "n", "d", "i", " ", "R", "e", "m", "i", "x", " ", "H", "i", "t", "s">>
T_hindiremixhits == <<"h", "i", "n", "d", "i", " ", "r", "e", "m", "i", "x", " ", "h", "i", "t", "s">>
T_pophits        == <<"p", "o", "p", " ", "h", "i", "t", "s">>
T_Cooking        == <<"C", "o", "o", "k", "i", "n", "g">>
Titles == {T_HindiRemixHits, T_hindiremixhits, T_pophits, T_Cooking}

D_PT3M    == <<"P", "T", "3", "M">>
D_PT2M59S == <<"P", "T", "2", "M", "5", "9", "S">>
D_PT5M    == <<"P", "T", "5", "M">>

\* what the remote videos().list call can answer: an error, no item, or one
\* item with a title and an ISO 8601 duration
RemoteError == [kind |-> "error", title |-> <<>>, duration |-> <<>>]
RemoteEmpty == [kind |-> "empty", title |-> <<>>, duration |-> <<>>]
RemoteItem(title, dur) == [kind |-> "item", title |-> title, duration |-> dur]
RemoteAnswers ==
    {RemoteError, RemoteEmpty,
     RemoteItem(T_HindiRemixHits, D_PT3M), RemoteItem(T_hindiremixhits, D_PT5M),
     RemoteItem(T_pophits, D_PT3M), RemoteItem(T_pophits, D_PT2M59S),
     RemoteItem(T_Cooking, D_PT5M)}

\* Python None for a details record
NoneDetails == [found |-> FALSE, title |-> <<>>, duration |-> 0]
DetailsOf(r) == [found |-> TRUE, title |-> r.title,
                 duration |-> parse_iso8601_duration(r.duration)]
DetailsTable == [r \in RemoteAnswers |-> IF r.kind = "item" THEN DetailsOf(r) ELSE NoneDetails]

\* get_video_details: lines 274-278, the fresh cached entry if any
cached_details(c, video_id, t) ==
    IF video_id \in DOMAIN c.video_details_cache
       /\ is_fresh(c.video_details_cache[video_id].timestamp, t)
    THEN c.video_details_cache[video_id].details
    ELSE NoneDetails

\* get_video_details(video_id) at time t, the remote answering r if asked:
\* the details returned, the cache left, whether check_quota refused, and
\* whether the remote call was made
get_video_details(c, video_id, t, r) ==
    IF cached_details(c, video_id, t).found
    THEN [details |-> cached_details(c, video_id, t), cache |-> c,
          denied |-> FALSE, called |-> FALSE]
    ELSE LET q == check_quota(c, details_cost, t)
         IN IF ~q.ok
            THEN [details |-> NoneDetails, cache |-> c, denied |-> TRUE, called |-> FALSE]
            ELSE IF r.kind = "item"
                 THEN [details |-> DetailsTable[r],
                       cache |-> [q.cache EXCEPT !.video_details_cache =
                                     dict_put(@, video_id,
                                              [details |-> DetailsTable[r], timestamp |-> t])],
                       denied |-> FALSE, called |-> TRUE]
                 ELSE [details |-> NoneDetails, cache |-> q.cache,
                       denied |-> FALSE, called |-> TRUE]

\* get_video_details answered from the cache (line 278)
was_cached(g) == g.details.found /\ ~g.called

\* the record of a cache entry's value being taken, with the entry's age
ReadOf(path, timestamp, t) == [path |-> path, age |-> t - timestamp]
NoRead == [path |-> "none", age |-> 0]
details_read(c, video_id, t) ==
    ReadOf("video_details_cache", c.video_details_cache[video_id].timestamp, t)

----------------------------------------------------------------------------
(* Used-items ledger *)

\* load_used_videos
load_used_videos(file) == IF file.exists THEN file.data ELSE EmptyDict

\* ensure_data_dir, lines 207-214: a missing file is created holding {}
ensure_file(file) == IF file.exists THEN file ELSE FileOf(EmptyDict)

----------------------------------------------------------------------------
(* Playlists: the URL of a list of identifiers, the store of saved          *)
(* playlists, the history of used items.  A URL is the sequence of the      *)
(* pieces it is concatenated from.                                          *)

MaxPlaylistIds == 2

WatchPrefix == "https://www.youtube.com/watch?v="
BatchPrefix == "https://www.youtube.com/watch_videos?video_ids="

RECURSIVE str_join(_, _)
\* sep.join(l)
str_join(sep, l) ==
    IF l = <<>> THEN <<>>
    ELSE IF Len(l) = 1 THEN <<l[1]>>
    ELSE <<l[1], sep>> \o str_join(sep, Tail(l))

\* create_youtube_playlist_url with line 463 testing `> 2`
create_youtube_playlist_url_late_batch(ids) ==
    IF Len(ids) = 0 THEN <<>>
    ELSE IF Len(ids) > 2 THEN <<BatchPrefix>> \o str_join(",", ids)
    ELSE <<WatchPrefix, ids[1]>>

\* create_youtube_playlist_url
create_youtube_playlist_url(ids) ==
    IF Len(ids) = 0 THEN <<>>
    ELSE IF Len(ids) > 1 THEN <<BatchPrefix>> \o str_join(",", ids)
    ELSE <<WatchPrefix, ids[1]>>

\* del d[k]
dict_del(d, k) == [x \in DOMAIN d \ {k} |-> d[x]]

\* datetime.isoformat()
isoformat(t) == <<"iso", t>>

\* the record of lines 480-485
playlist_record(url, ids, t) ==
    [url |-> url, video_ids |-> ids, created_at |-> isoformat(t), last_played |-> "None"]

\* get_saved_playlists
get_saved_playlists(file) == IF file.exists /\ ~is_torn(file) THEN file.data ELSE EmptyDict

\* os.remove left out of clear_search_history
remove_skipped(file) == file

\* os.remove
remove(file) == NoFile

NoPlaylistCall == [op |-> "none", name |-> "", video_ids |-> <<>>, url |-> <<>>]
NotCleared == [done |-> FALSE, ledger |-> EmptyDict]

PlaylistNames == {"a", "b"}
IdLists == {<<>>} \cup UNION {[1..n -> VideoIds] : n \in 1..MaxPlaylistIds}
SavedLists == {<<"v1">>, <<"v2", "v1">>}

\* a caller building the URL of a list, lines 542, 778, 945
create_youtube_playlist_url_call(ids) ==
    /\ pc = "idle"
    /\ pl_call' = [op |-> "url", name |-> "", video_ids |-> ids,
                   url |-> create_youtube_playlist_url(ids)]
    /\ Done("create_youtube_playlist_url", "", "", "none")
    /\ UNCHANGED <<now, peer_quota_data, pc, keySide, cacheVars, used_videos_file, playlists_file,
                   history_cleared, ssVars, advSide>>

\* save_playlist(name, url, video_ids)
save_playlist(name, url, ids) ==
    /\ pc = "idle"
    /\ LET playlists == get_saved_playlists(ensure_file(playlists_file))
       IN playlists_file' = FileOf(dict_put(playlists, name, playlist_record(url, ids, now)))
    /\ used_videos_file' = ensure_file(used_videos_file)
    /\ pl_call' = [op |-> "save", name |-> name, video_ids |-> ids, url |-> url]
    /\ Done("save_playlist", name, "None", "none")
    /\ UNCHANGED <<now, peer_quota_data, pc, keySide, cacheVars, history_cleared, ssVars, advSide>>

\* delete_playlist(name)
delete_playlist(name) ==
    /\ pc = "idle"
    /\ LET playlists == get_saved_playlists(playlists_file)
       IN IF name \in DOMAIN playlists
          THEN /\ playlists_file' = FileOf(dict_del(playlists, name))
               /\ Done("delete_playlist", name, "True", "none")
          ELSE /\ UNCHANGED playlists_file
               /\ Done("delete_playlist", name, "False", "none")
    /\ pl_call' = [op |-> "delete", name |-> name, video_ids |-> <<>>, url |-> <<>>]
    /\ UNCHANGED <<now, peer_quota_data, pc, keySide, cacheVars, used_videos_file, history_cleared, ssVars,
                   advSide>>

\* clear_search_history
clear_search_history ==
    /\ pc = "idle"
    /\ used_videos_file' = IF used_videos_file.exists THEN remove(used_videos_file)
                            ELSE used_videos_file
    /\ history_cleared' = [done |-> TRUE, ledger |-> load_used_videos(used_videos_file)]
    /\ Done("clear_search_history", "", "None", "none")
    /\ UNCHANGED <<now, peer_quota_data, pc, keySide, cacheVars, playlists_file, pl_call, ssVars, advSide>>

----------------------------------------------------------------------------
(* smart_search *)

exclude_keywords == {
    <<"h", "i", "n", "d", "i">>, <<"b", "o", "l", "l", "y", "w", "o", "o", "d">>,
    <<"t", "a", "m", "i", "l">>, <<"t", "e", "l", "u", "g", "u">>,
    <<"p", "u", "n", "j", "a", "b", "i">>, <<"b", "h", "o", "j", "p", "u", "r", "i">> }

include_keywords == {
    <<"p", "o", "p">>, <<"u", "r", "b", "a", "n">>, <<"R", "n", "B">>,
    <<"m", "i", "x", "e", "s">>, <<"h", "i", "p", "h", "o", "p">>,
    <<"k", "e", "n", "y", "a", "n", " ", "r", "n", "b">>,
    <<"R", "u", "s", "s", "i", "a", "n", " ", "t", "r", "a", "p">>,
    <<"a", "f", "r", "o", "b", "e", "a", "t">>, <<"a", "f", "r", "o", "p", "o", "p">>,
    <<"r", "e", "g", "g", "a", "e">>,
    <<"k", "i", "k", "u", "y", "u", " ", "g", "o", "s", "p", "e", "l">> }

music_indicators == {
    <<"m", "u", "s", "i", "c">>, <<"s", "o", "n", "g">>, <<"a", "u", "d", "i", "o">>,
    <<"t", "r", "a", "c", "k">>, <<"h", "i", "t">>, <<"m", "i", "x">>,
    <<"o", "f", "f", "i", "c", "i", "a", "l">>, <<"v", "i", "d", "e", "o">>,
    <<"c", "o", "v", "e", "r">>, <<"r", "e", "m", "i", "x">>, <<"l", "i", "v", "e">>,
    <<"a", "c", "o", "u", "s", "t", "i", "c">>, <<"e", "x", "t", "e", "n", "d", "e", "d">>,
    <<"h", "o", "u", "r">>, <<"p", "l", "a", "y", "l", "i", "s", "t">>,
    <<"c", "o", "m", "p", "i", "l", "a", "t", "i", "o", "n">> }

orders == <<"relevance", "viewCount", "date", "rating">>

\* line 436: any(exc in title for exc in exclude_keywords)
any_excluded(title) == \E exc \in exclude_keywords : str_in(exc, title)
ExcludedTable == [t \in Titles |-> any_excluded(t)]
title_excluded(title) == ExcludedTable[title]

\* lines 442-443: any include keyword or any music indicator in the title
any_music(title) ==
    \/ \E inc \in include_keywords : str_in(inc, title)
    \/ \E ind \in music_indicators : str_in(ind, title)
MusicTable == [t \in Titles |-> any_music(t)]
\* lines 442-444 with the test left out
title_is_music_untested(title) == TRUE
title_is_music(title) == MusicTable[title]

\* line 433 with the bound made exclusive
too_short_inclusive(duration) == duration <= min_duration_seconds

\* line 433
too_short(duration) == duration < min_duration_seconds

\* lines 429-446: the content filters on a details record
passes_filters(d) ==
    /\ ~too_short(d.duration)
    /\ ~title_excluded(d.title)
    /\ title_is_music(d.title)

\* line 424 without the ledger test
not_seen_ledger_ignored(video_id, used, acc) == video_id \notin Range(acc)

\* line 424: both membership tests
not_seen(video_id, used, acc) == video_id \notin DOMAIN used /\ video_id \notin Range(acc)

\* the loop guards with `>` in place of `>=`
is_full_late(acc, maxr) == Len(acc) > maxr
\* the loop guards of lines 400, 405 and 420
is_full(acc, maxr) == Len(acc) >= maxr

\* what the remote search().list call can answer
SearchResponses == {<<>>} \cup UNION {[1..n -> VideoIds] : n \in 1..MaxItems}

\* lines 392-398
smart_search_begin(maxr) ==
    /\ pc = "idle"
    /\ pc' = "ss_term"
    /\ max_results' = maxr
    /\ all_video_ids' = <<>>
    /\ used_videos' = load_used_videos(used_videos_file)
    /\ term_i' = 0
    /\ order_i' = 0
    /\ items' = <<>>
    /\ item_i' = 0
    /\ quota_failed_at' = -1
    /\ Done("smart_search", "", "", "none")
    /\ UNCHANGED <<now, peer_quota_data, keySide, cacheVars, used_videos_file, plVars, advSide>>

\* lines 399-403 and 456: the head of the term loop, or the return
smart_search_term ==
    /\ pc = "ss_term"
    /\ IF term_i >= SampleSize \/ is_full(all_video_ids, max_results)
       THEN /\ pc' = "idle"
            /\ Done("smart_search", "", "returned", "none")
            /\ UNCHANGED order_i
       ELSE /\ pc' = "ss_order"
            /\ order_i' = 0
            /\ UNCHANGED last
    /\ UNCHANGED <<now, peer_quota_data, keySide, cacheVars, used_videos_file, plVars, max_results, all_video_ids,
                   used_videos, term_i, items, item_i, quota_failed_at, advSide>>

\* lines 404-417 and 451-454: the head of the order loop and the search call
smart_search_order(resp) ==
    /\ pc = "ss_order"
    /\ IF order_i >= Len(orders) \/ is_full(all_video_ids, max_results)
       THEN /\ pc' = "ss_term"
            /\ term_i' = term_i + 1
            /\ UNCHANGED <<items, item_i, last>>
       ELSE CASE resp.kind = "ok" ->
                    /\ pc' = "ss_item"
                    /\ items' = resp.items
                    /\ item_i' = 0
                    /\ UNCHANGED <<term_i, last>>
              [] resp.kind = "HttpError" ->
                    /\ pc' = "ss_term"
                    /\ term_i' = term_i + 1
                    /\ UNCHANGED <<items, item_i, last>>
              [] OTHER ->
                    /\ pc' = "crashed"
                    /\ Done("smart_search", "", "raised", "exception")
                    /\ UNCHANGED <<term_i, items, item_i>>
    /\ UNCHANGED <<now, peer_quota_data, keySide, cacheVars, used_videos_file, plVars, max_results, all_video_ids,
                   used_videos, order_i, quota_failed_at, advSide>>

\* lines 419-449: one candidate of the response, or the end of the response
smart_search_item(r) ==
    /\ pc = "ss_item"
    /\ IF item_i >= Len(items) \/ is_full(all_video_ids, max_results)
       THEN /\ pc' = "ss_order"
            /\ order_i' = order_i + 1
            /\ UNCHANGED <<cacheVars, all_video_ids, item_i, quota_failed_at, cache_read>>
       ELSE LET video_id == items[item_i + 1]
                g == get_video_details(cache, video_id, now, r)
            IN /\ item_i' = item_i + 1
               /\ UNCHANGED <<pc, order_i>>
               /\ IF not_seen(video_id, used_videos, all_video_ids)
                  THEN /\ cache' = g.cache
                       /\ cache_file' = IF g.cache # cache THEN FileOf(g.cache) ELSE cache_file
                       /\ cache_read' = IF was_cached(g)
                                        THEN details_read(cache, video_id, now)
                                        ELSE cache_read
                       /\ quota_failed_at' =
                              IF g.denied /\ quota_failed_at = -1
                              THEN Len(all_video_ids) ELSE quota_failed_at
                       /\ all_video_ids' =
                              IF g.details.found /\ passes_filters(g.details)
                              THEN Append(all_video_ids, video_id)
                              ELSE all_video_ids
                  ELSE UNCHANGED <<cacheVars, all_video_ids, quota_failed_at, cache_read>>
    /\ UNCHANGED <<now, peer_quota_data, keySide, last, used_videos_file, plVars, max_results, used_videos,
                   term_i, items, advVars, rot_caller>>

----------------------------------------------------------------------------
(* Channel-name resolution *)

NoChannel == ""
ChannelError == [kind |-> "error", channel_id |-> NoChannel]
ChannelEmpty == [kind |-> "empty", channel_id |-> NoChannel]
ChannelItem  == [kind |-> "item", channel_id |-> "UC1"]
\* what the remote search().list(type="channel") call can answer
ChannelAnswers == {ChannelError, ChannelEmpty, ChannelItem}

\* get_channel_id(channel_name) at time t, the remote answering rc if asked
get_channel_id(c, channel_name, t, rc) ==
    IF channel_name \in DOMAIN c.channel_cache
       /\ is_fresh(c.channel_cache[channel_name].timestamp, t)
    THEN [channel_id |-> c.channel_cache[channel_name].channel_id, cache |-> c, hit |-> TRUE]
    ELSE LET q == check_quota(c, search_cost, t)
         IN IF ~q.ok
            THEN [channel_id |-> NoChannel, cache |-> c, hit |-> FALSE]
            ELSE IF rc.kind = "item"
                 THEN [channel_id |-> rc.channel_id,
                       cache |-> [q.cache EXCEPT !.channel_cache =
                                     dict_put(@, channel_name,
                                              [channel_id |-> rc.channel_id, timestamp |-> t])],
                       hit |-> FALSE]
                 ELSE [channel_id |-> NoChannel, cache |-> q.cache, hit |-> FALSE]

----------------------------------------------------------------------------
(* Advanced search: youtube_menu, choice 2 *)

SearchQueries == {<<"x">>}
SortChoices == {"1"}
DurationChoices == {"3"}
ChannelFilters == {<<>>, <<"c">>}

\* lines 814-820
sort_order(sort_choice) ==
    CASE sort_choice = "2" -> <<"d", "a", "t", "e">>
      [] sort_choice = "3" -> <<"v", "i", "e", "w", "C", "o", "u", "n", "t">>
      [] sort_choice = "4" -> <<"r", "a", "t", "i", "n", "g">>
      [] OTHER -> <<"r", "e", "l", "e", "v", "a", "n", "c", "e">>

\* lines 830-836 and 909: min_duration <= duration <= max_duration
in_duration_window(choice, duration) ==
    CASE choice = "2" -> 0 <= duration /\ duration <= 240
      [] choice = "3" -> 240 <= duration /\ duration <= 1200
      [] choice = "4" -> 1200 <= duration
      [] OTHER -> 0 <= duration

\* lines 844-846
make_cache_key(search_query, sort_choice, dur_choice, channel) ==
    search_query \o <<"_">> \o sort_order(sort_choice) \o <<"_">> \o <<dur_choice>>
        \o (IF channel # <<>> THEN <<"_">> \o channel ELSE <<>>)

\* the entry of lines 926-930
search_entry(ids, details_list, t) ==
    [video_ids |-> ids, video_details |-> details_list, timestamp |-> t]

\* lines 949-960 and 546-557: the ledger with the listed identifiers marked
mark_used(ledger, ids, playlist_type) ==
    [k \in DOMAIN ledger \cup Range(ids) |->
        IF k \in Range(ids) THEN playlist_type ELSE ledger[k]]

\* lines 933-965 and handle_search_results: the playlist is built and the
\* ledger updated when enough identifiers were found
use_results(ids, playlist_type) ==
    IF Len(ids) >= results_threshold
    THEN /\ playlist' = ids
         /\ used_videos_file' =
                FileOf(mark_used(load_used_videos(used_videos_file), ids, playlist_type))
         /\ UNCHANGED plVars
    ELSE UNCHANGED <<playlist, used_videos_file, plVars>>

\* lines 890-903: the inline cache test, then check_quota(1) and get_video_details
lookup_details(c, video_id, t, r) ==
    IF cached_details(c, video_id, t).found
    THEN [details |-> cached_details(c, video_id, t), cache |-> c,
          broke |-> FALSE, hit |-> TRUE]
    ELSE LET q == check_quota(c, details_cost, t)
         IN IF ~q.ok
            THEN [details |-> NoneDetails, cache |-> c, broke |-> TRUE, hit |-> FALSE]
            ELSE LET g == get_video_details(q.cache, video_id, t, r)
                 IN [details |-> g.details, cache |-> g.cache,
                     broke |-> FALSE, hit |-> was_cached(g)]

\* lines 910-919: the display record of an accepted identifier
display_record(video_id, d) == [id |-> video_id, title |-> d.title, duration |-> d.duration]

\* no rotation and no retried search yet
NoRetries == [rotations |-> 0, calls |-> 0]

\* the handler returns: its locals and those of the rotate calls it made
\* are gone
advanced_search_returns(result) ==
    /\ pc' = "idle"
    /\ original_index' = 0
    /\ working_key_found' = FALSE
    /\ keys_tried' = {}
    /\ rot_start_keys' = <<>>
    /\ probe_log' = [k \in Keys |-> NoProbe]
    /\ rot_caller' = "menu"
    /\ Done("advanced_search", "", result, "none")
    /\ cache_key' = <<>>
    /\ duration_choice' = "1"
    /\ channel_filter' = <<>>
    /\ video_ids' = <<>>
    /\ video_details_list' = <<>>
    /\ response_items' = <<>>
    /\ response_i' = 0
    /\ error_str' = <<>>
    /\ retry' = 0
    /\ retry_log' = NoRetries

\* the handler goes on with these locals
advanced_search_locals(key, dur_choice, channel) ==
    /\ UNCHANGED <<rotVars, rot_caller>>
    /\ cache_key' = key
    /\ duration_choice' = dur_choice
    /\ channel_filter' = channel
    /\ video_ids' = <<>>
    /\ video_details_list' = <<>>
    /\ response_items' = <<>>
    /\ response_i' = 0
    /\ error_str' = <<>>
    /\ retry' = 0
    /\ retry_log' = NoRetries

\* what the remote search().list call of the advanced search can answer
AdvErrorTexts == {
    <<"q", "u", "o", "t", "a", "E", "x", "c", "e", "e", "d", "e", "d">>,
    <<"b", "a", "c", "k", "e", "n", "d", "E", "r", "r", "o", "r">> }
AdvAnswers ==
    {[kind |-> "ok", items |-> <<>>, text |-> <<>>]}
        \cup {[kind |-> "ok", items |-> <<v>>, text |-> <<>>] : v \in VideoIds}
        \cup {[kind |-> "Exception", items |-> <<>>, text |-> t] : t \in AdvErrorTexts}

\* what the remote videos().list call answers during an advanced search:
\* an error, a video inside the medium duration window, one outside it
AdvDetailAnswers ==
    {RemoteError, RemoteItem(T_Cooking, D_PT5M), RemoteItem(T_pophits, D_PT3M)}

\* lines 842-862: the cache lookup and the quota check
advanced_search_begin(search_query, sort_choice, dur_choice, channel) ==
    /\ pc = "idle"
    /\ searches_begun < MaxSearches
    /\ searches_begun' = searches_begun + 1
    /\ LET key == make_cache_key(search_query, sort_choice, dur_choice, channel)
           fresh == /\ key \in DOMAIN cache.search_cache
                    /\ is_fresh(cache.search_cache[key].timestamp, now)
           cached == cache.search_cache[key]
           q == check_quota(cache, search_cost, now)
       IN /\ cache_read' = IF fresh THEN ReadOf("search_cache", cached.timestamp, now)
                           ELSE NoRead
          /\ IF fresh /\ cached.video_ids # <<>> /\ cached.video_details # <<>>
             THEN /\ IF Len(cached.video_ids) >= results_threshold
                     THEN use_results(cached.video_ids, "search")
                     ELSE playlist' = <<>> /\ UNCHANGED <<used_videos_file, plVars>>
                  /\ advanced_search_returns("cached")
                  /\ UNCHANGED cacheVars
             ELSE /\ cache' = q.cache
                  /\ cache_file' = IF q.cache # cache THEN FileOf(q.cache) ELSE cache_file
                  /\ playlist' = <<>>
                  /\ IF q.ok
                     THEN /\ pc' = IF channel # <<>> THEN "adv_channel" ELSE "adv_search"
                          /\ Done("advanced_search", "", "", "none")
                          /\ advanced_search_locals(key, dur_choice, channel)
                     ELSE advanced_search_returns("no quota")
                  /\ UNCHANGED <<used_videos_file, plVars>>
    /\ UNCHANGED <<now, peer_quota_data, keyVars, quotaVars, ssVars>>

\* lines 873-878
advanced_search_channel(rc) ==
    /\ pc = "adv_channel"
    /\ LET g == get_channel_id(cache, channel_filter, now, rc)
       IN /\ cache' = g.cache
          /\ cache_file' = IF g.cache # cache THEN FileOf(g.cache) ELSE cache_file
          /\ cache_read' = IF g.hit
                           THEN ReadOf("channel_cache",
                                       cache.channel_cache[channel_filter].timestamp, now)
                           ELSE cache_read
    /\ pc' = "adv_search"
    /\ UNCHANGED <<now, peer_quota_data, keySide, last, used_videos_file, plVars, ssVars, advVars, rot_caller>>

\* lines 880-883 and 967-968: the search call
advanced_search_call(resp) ==
    /\ pc = "adv_search"
    /\ IF resp.kind = "ok"
       THEN /\ pc' = "adv_item"
            /\ response_items' = resp.items
            /\ UNCHANGED error_str
       ELSE /\ pc' = "adv_except"
            /\ error_str' = resp.text
            /\ UNCHANGED response_items
    /\ response_i' = 0
    /\ video_ids' = <<>>
    /\ video_details_list' = <<>>
    /\ UNCHANGED <<now, peer_quota_data, keySide, last, searchSide, searches_begun, cache_key, duration_choice,
                   channel_filter,
                   retry, retry_log, playlist, rot_caller, cache_read>>

\* lines 925-965: the result is cached, then used
advanced_search_store(c) ==
    /\ cache' = [c EXCEPT !.search_cache =
                    dict_put(@, cache_key, search_entry(video_ids, video_details_list, now))]
    /\ cache_file' = FileOf(cache')
    /\ use_results(video_ids, "advanced_search")
    /\ advanced_search_returns("searched")

\* lines 887-923: one item of the response; the end of the loop runs into
\* lines 925-965
advanced_search_item(r) ==
    /\ pc = "adv_item"
    /\ IF response_i >= Len(response_items) \/ Len(video_ids) >= max_found
       THEN /\ advanced_search_store(cache)
            /\ UNCHANGED cache_read
       ELSE LET video_id == response_items[response_i + 1]
                g == lookup_details(cache, video_id, now, r)
                accepted == g.details.found
                              /\ in_duration_window(duration_choice, g.details.duration)
            IN /\ cache_read' = IF g.hit THEN details_read(cache, video_id, now)
                                ELSE cache_read
               /\ IF g.broke
                  THEN advanced_search_store(g.cache)
                  ELSE /\ cache' = g.cache
                       /\ cache_file' = IF g.cache # cache THEN FileOf(g.cache)
                                        ELSE cache_file
                       /\ response_i' = response_i + 1
                       /\ video_ids' = IF accepted THEN Append(video_ids, video_id)
                                       ELSE video_ids
                       /\ video_details_list' =
                              IF accepted
                              THEN Append(video_details_list,
                                          display_record(video_id, g.details))
                              ELSE video_details_list
                       /\ UNCHANGED <<pc, last, playlist, used_videos_file, plVars, cache_key,
                                      duration_choice, channel_filter, response_items,
                                      error_str, retry, retry_log, rotVars, rot_caller>>
    /\ UNCHANGED <<now, peer_quota_data, keyVars, quotaVars, ssVars, searches_begun>>

\* `for retry in range(4)`
in_retry_range_wide(r) == r < max_retries + 1
\* line 971: `for retry in range(3)`
in_retry_range(r) == r < max_retries

\* lines 969-973 and 1012-1016: the head of the retry loop and its call of
\* rotate_api_key
advanced_search_except ==
    /\ pc = "adv_except"
    /\ IF is_quota_text(error_str) /\ in_retry_range(retry)
       THEN /\ rotate_enter("adv")
            /\ retry_log' = [retry_log EXCEPT !.rotations = @ + 1]
       ELSE /\ pc' = "adv_fallback"
            /\ UNCHANGED <<rotVars, rot_caller, last, retry_log>>
    /\ UNCHANGED <<now, peer_quota_data, keyVars, quotaVars, searchSide, cache_key,
                   duration_choice, channel_filter, video_ids, video_details_list,
                   response_items, response_i, error_str, retry, playlist, searches_begun,
                   cache_read>>

\* lines 974-979 and 1007-1011: the search call of a retry
advanced_search_retry_call(resp) ==
    /\ pc = "adv_retry"
    /\ retry_log' = [retry_log EXCEPT !.calls = @ + 1]
    /\ Done("retry_search", "", resp.kind,
            IF resp.kind = "ok" THEN "none"
            ELSE IF is_quota_text(resp.text) THEN "quota" ELSE "other")
    /\ IF resp.kind = "ok"
       THEN /\ pc' = "adv_retry_item"
            /\ response_items' = resp.items
            /\ response_i' = 0
            /\ video_ids' = <<>>
            /\ video_details_list' = <<>>
            /\ UNCHANGED retry
       ELSE /\ IF ~is_quota_text(resp.text)
               THEN pc' = "adv_fallback" /\ UNCHANGED retry
               ELSE pc' = "adv_except" /\ retry' = retry + 1
            /\ UNCHANGED <<response_items, response_i, video_ids, video_details_list>>
    /\ UNCHANGED <<now, peer_quota_data, keySide, searchSide, searches_begun, cache_key, duration_choice,
                   channel_filter, error_str, playlist, rot_caller, cache_read>>

\* lines 982-1006: one item of a retry's response, or its end
advanced_search_retry_item(r) ==
    /\ pc = "adv_retry_item"
    /\ IF response_i >= Len(response_items) \/ Len(video_ids) >= max_found
       THEN /\ IF video_ids # <<>>
               THEN /\ use_results(video_ids, "search")
                    /\ advanced_search_returns("retried")
               ELSE /\ pc' = "adv_except"
                    /\ retry' = retry + 1
                    /\ UNCHANGED <<playlist, used_videos_file, plVars, last, cache_key,
                                   duration_choice, channel_filter, video_ids,
                                   video_details_list, response_items, response_i,
                                   error_str, retry_log, rotVars, rot_caller>>
            /\ UNCHANGED <<cacheVars, cache_read>>
       ELSE LET video_id == response_items[response_i + 1]
                g == get_video_details(cache, video_id, now, r)
                accepted == g.details.found
                              /\ in_duration_window(duration_choice, g.details.duration)
            IN /\ cache' = g.cache
               /\ cache_file' = IF g.cache # cache THEN FileOf(g.cache) ELSE cache_file
               /\ cache_read' = IF was_cached(g) THEN details_read(cache, video_id, now)
                                ELSE cache_read
               /\ response_i' = response_i + 1
               /\ video_ids' = IF accepted THEN Append(video_ids, video_id) ELSE video_ids
               /\ video_details_list' =
                      IF accepted
                      THEN Append(video_details_list, display_record(video_id, g.details))
                      ELSE video_details_list
               /\ UNCHANGED <<pc, last, retry, retry_log, playlist, used_videos_file, plVars,
                              cache_key, duration_choice, channel_filter, response_items,
                              error_str, rotVars, rot_caller>>
    /\ UNCHANGED <<now, peer_quota_data, keyVars, quotaVars, ssVars, searches_begun>>

\* lines 1016-1037: the cached result of an earlier search stands in
advanced_search_fallback ==
    /\ pc = "adv_fallback"
    /\ IF cache_key \in DOMAIN cache.search_cache
       THEN LET cached == cache.search_cache[cache_key]
            IN IF cached.video_ids # <<>> /\ cached.video_details # <<>>
               THEN /\ cache_read' = ReadOf("fallback", cached.timestamp, now)
                    /\ playlist' = cached.video_ids
               ELSE UNCHANGED <<cache_read, playlist>>
       ELSE UNCHANGED <<cache_read, playlist>>
    /\ advanced_search_returns("failed")
    /\ UNCHANGED <<now, peer_quota_data, keyVars, quotaVars, searchSide, searches_begun>>

----------------------------------------------------------------------------
(* A new run: YouTubeManager.__init__ and QuotaTracker.__init__ over the    *)
(* files the previous run left.                                             *)

YouTubeManager_init ==
    /\ pc \in {"idle", "crashed"}
    /\ api_keys' = load_api_keys(BootstrapKey, init_has_api_keys_file, api_keys_file)
    /\ current_key_index' = 0
    /\ youtube' = build_youtube_client(api_keys', 0)
    /\ quota_data' = load_quota_data(quota_file)
    /\ pc' = "idle"
    /\ used_videos_file' = ensure_file(used_videos_file)
    /\ playlists_file' = ensure_file(playlists_file)
    /\ UNCHANGED <<pl_call, history_cleared>>
    /\ cache' = load_cache(cache_file, now)
    /\ cache_file' = FileOf(cache')
    /\ Done("init", "", "", "none")
    /\ NoRotateHistory
    /\ UNCHANGED <<now, peer_quota_data, api_keys_file, quota_file, trackVars, ssVars, advSide>>

\* the clock advances
Tick ==
    /\ pc = "idle"
    /\ \E t \in TimePoints : t > now /\ now' = t
    /\ Done("tick", "", "", "none")
    /\ tracker_call' = NoCall
    /\ UNCHANGED <<pc, peer_quota_data, keyVars, quota_data, quota_file, records_begun, recorded, ledger_base,
                   ledger_done, rotVars, searchSide, advSide>>

----------------------------------------------------------------------------
(* QuotaTracker called directly: record_usage with its save in steps, so    *)
(* that the process can stop inside it; get_usage; clean_old_data.          *)

\* the credentials and costs record_usage is called with, the `days` and
\* `days_to_keep` arguments
RecordKeys == {BootstrapKey, "K1"}
Costs == {details_cost, test_cost}
DaysArgs == -1..MaxWindow

\* lines 29-37: the bucket is updated in memory
record_usage_begin(api_key, cost) ==
    /\ pc = "idle"
    /\ records_begun < MaxRecords
    /\ records_begun' = records_begun + 1
    /\ quota_data' = record_usage(quota_data, api_key, cost, now)
    /\ recorded' = Append(recorded, <<api_key, cost, strftime(now)>>)
    /\ tracker_call' = [NoCall EXCEPT !.api_key = api_key, !.cost = cost]
    /\ pc' = "record_save"
    /\ Done("record", api_key, "", "none")
    /\ UNCHANGED <<now, peer_quota_data, keyVars, quota_file, ledger_base, ledger_done, rotVars, searchSide,
                   advSide>>

\* line 24: open(quota_file, 'w') truncates the file
save_quota_data_open ==
    /\ pc = "record_save"
    /\ quota_file' = TornFile
    /\ pc' = "record_dump"
    /\ UNCHANGED <<now, peer_quota_data, keyVars, quota_data, trackVars, rotVars, last, searchSide, advSide>>

\* line 25: json.dump and the close of the file; record_usage returns
save_quota_data_dump ==
    /\ pc = "record_dump"
    /\ quota_file' = FileOf(quota_data)
    /\ ledger_done' = quota_data
    /\ pc' = "idle"
    /\ tracker_call' = NoCall
    /\ Done("return", "", "", "none")
    /\ UNCHANGED <<now, peer_quota_data, keyVars, quota_data, records_begun, recorded, ledger_base, rotVars,
                   searchSide, advSide>>

\* the process stops inside record_usage; what it held in memory is gone
\* when the next run loads the file
Crash ==
    /\ pc \in {"record_save", "record_dump"}
    /\ pc' = "crashed"
    /\ Done("crash", "", "", "none")
    /\ UNCHANGED <<now, peer_quota_data, keySide, searchSide, advSide>>

\* QuotaTracker.__init__ of the next run, lines 7-9
QuotaTracker_init ==
    /\ pc \in {"idle", "crashed"}
    /\ quota_data' = load_quota_data(quota_file)
    /\ ledger_base' = quota_data'
    /\ ledger_done' = quota_data'
    /\ recorded' = <<>>
    /\ tracker_call' = NoCall
    /\ pc' = "idle"
    /\ Done("init", "", "", "none")
    /\ UNCHANGED <<now, peer_quota_data, keyVars, quota_file, records_begun, rotVars, searchSide, advSide>>

\* get_usage(api_key, days), lines 40-53, up to its return statement
get_usage_call(api_key, days) ==
    /\ pc = "idle"
    /\ tracker_call' = [NoCall EXCEPT !.api_key = api_key, !.days = days,
                                      !.total = get_usage(quota_data, api_key, days, now)]
    /\ pc' = "tracker_return"
    /\ Done("get_usage", api_key, "", "none")
    /\ UNCHANGED <<now, peer_quota_data, keyVars, quota_data, quota_file, records_begun, recorded,
                   ledger_base, ledger_done, rotVars, searchSide, advSide>>

\* get_usage or clean_old_data hands control back to its caller
tracker_call_returns ==
    /\ pc = "tracker_return"
    /\ pc' = "idle"
    /\ tracker_call' = NoCall
    /\ Done("return", "", "", "none")
    /\ UNCHANGED <<now, peer_quota_data, keyVars, quota_data, quota_file, records_begun, recorded,
                   ledger_base, ledger_done, rotVars, searchSide, advSide>>

\* datetime.strptime(date, "%Y-%m-%d") succeeds
strptime_ok(date) == Len(date) = 2 /\ date[1] = "ymd"
\* a bucket deleted although it starts exactly at the cutoff
is_old_inclusive(date, cutoff) == strptime_ok(date) /\ date[2] * SecondsPerDay <= cutoff
\* lines 61-66: the bucket's key parses and its day starts before the cutoff
is_old(date, cutoff) == strptime_ok(date) /\ date[2] * SecondsPerDay < cutoff

\* clean_old_data with the cutoff one day late
clean_old_data_short(qd, days_to_keep, t) ==
    LET cutoff == t - (days_to_keep - 1) * SecondsPerDay
        kept(buckets) == [d \in {x \in DOMAIN buckets : ~is_old(x, cutoff)} |-> buckets[d]]
    IN [k \in {x \in DOMAIN qd : DOMAIN kept(qd[x]) # {}} |-> kept(qd[k])]

\* quota_data after clean_old_data(days_to_keep) at time t, lines 57-70
clean_old_data(qd, days_to_keep, t) ==
    LET cutoff == t - days_to_keep * SecondsPerDay
        kept(buckets) == [d \in {x \in DOMAIN buckets : ~is_old(x, cutoff)} |-> buckets[d]]
    IN [k \in {x \in DOMAIN qd : DOMAIN kept(qd[x]) # {}} |-> kept(qd[k])]

\* clean_old_data(days_to_keep) with its save, lines 55-72
clean_old_data_call(days_to_keep) ==
    /\ pc = "idle"
    /\ quota_data' = clean_old_data(quota_data, days_to_keep, now)
    /\ quota_file' = FileOf(quota_data')
    /\ ledger_base' = quota_data'
    /\ ledger_done' = quota_data'
    /\ recorded' = <<>>
    /\ tracker_call' = [NoCall EXCEPT !.days = days_to_keep]
    /\ pc' = "tracker_return"
    /\ Done("clean", "", "None", "none")
    /\ UNCHANGED <<now, peer_quota_data, keyVars, records_begun, rotVars, searchSide, advSide>>

----------------------------------------------------------------------------
(* The credential specification: a fresh installation, bootstrap key only   *)

\* no direct tracker call yet, the ledger as loaded
InitTrack(ledger) ==
    /\ tracker_call = NoCall
    /\ records_begun = 0
    /\ recorded = <<>>
    /\ ledger_base = ledger
    /\ ledger_done = ledger

\* one credential, with the ledger the quota file holds
InitKeysWith(ledger) ==
    /\ api_keys = <<BootstrapKey>>
    /\ current_key_index = 0
    /\ youtube = BootstrapKey
    /\ api_keys_file = NoFile
    /\ quota_data = ledger
    /\ peer_quota_data = ledger
    /\ quota_file = IF ledger = EmptyDict THEN NoFile ELSE FileOf(ledger)
    /\ original_index = 0
    /\ working_key_found = FALSE
    /\ keys_tried = {}
    /\ rot_start_keys = <<>>
    /\ probe_log = [k \in Keys |-> NoProbe]
    /\ InitTrack(ledger)

InitKeySide == InitKeysWith(EmptyDict)

\* the search side of an installation made at time t, idle
InitSearchSideAt(used, quota_used0, t) ==
    /\ cache = [default_cache(t) EXCEPT !.quota_used = quota_used0]
    /\ cache_file = FileOf(cache)
    /\ used_videos_file = FileOf(used)
    /\ playlists_file = FileOf(EmptyDict)
    /\ pl_call = NoPlaylistCall
    /\ history_cleared = NotCleared
    /\ max_results = 0
    /\ all_video_ids = <<>>
    /\ used_videos = EmptyDict
    /\ term_i = 0
    /\ order_i = 0
    /\ items = <<>>
    /\ item_i = 0
    /\ quota_failed_at = -1
    /\ cache_key = <<>>
    /\ duration_choice = "1"
    /\ channel_filter = <<>>
    /\ video_ids = <<>>
    /\ video_details_list = <<>>
    /\ response_items = <<>>
    /\ response_i = 0
    /\ error_str = <<>>
    /\ retry = 0
    /\ retry_log = NoRetries
    /\ playlist = <<>>
    /\ searches_begun = 0
    /\ rot_caller = "menu"
    /\ cache_read = NoRead

\* the search side of a fresh installation, idle
InitSearchSide(used, quota_used0) == InitSearchSideAt(used, quota_used0, 0)

InitKeys ==
    /\ InitSearchSide(EmptyDict, 0)
    /\ now = 0
    /\ pc = "idle"
    /\ InitKeySide
    /\ last = [op |-> "init", arg |-> "", result |-> "", outcome |-> "none"]

NextKeys ==
    \/ \E k \in Keys, o \in ProbeOutcomes : add_api_key(k, o)
    \/ rotate_api_key_begin
    \/ \E o \in ProbeOutcomes : rotate_api_key_step(o)
    \/ rotate_api_key_end
    \/ YouTubeManager_init

SpecKeys == InitKeys /\ [][NextKeys]_vars

----------------------------------------------------------------------------
(* The tracker specification: a ledger left by earlier days (buckets of     *)
(* the two days before day 0, and a bucket whose key is no date), then      *)
(* record_usage and clean_old_data in any order as time passes, the process *)
(* stopping inside record_usage and starting again.                         *)

Yesterday == strftime(0 - SecondsPerDay)
OldDayKeys == {Yesterday, strftime(0 - 2 * SecondsPerDay), <<"bad">>}
\* the buckets an earlier run left for one credential
OldBuckets == [d \in OldDayKeys |-> IF d = Yesterday THEN details_cost ELSE test_cost]
OldLedgers ==
    {EmptyDict,
     [k \in {BootstrapKey} |-> OldBuckets],
     [k \in RecordKeys |-> IF k = BootstrapKey THEN OldBuckets
                           ELSE [d \in {<<"bad">>} |-> details_cost]]}

InitQuota ==
    /\ InitSearchSide(EmptyDict, 0)
    /\ now = 0
    /\ pc = "idle"
    /\ \E ledger \in OldLedgers : InitKeysWith(ledger)
    /\ last = [op |-> "init", arg |-> "", result |-> "", outcome |-> "none"]

NextQuota ==
    \/ \E k \in RecordKeys, c \in Costs : record_usage_begin(k, c)
    \/ save_quota_data_open
    \/ save_quota_data_dump
    \/ Crash
    \/ QuotaTracker_init
    \/ \E d \in DaysArgs : clean_old_data_call(d)
    \/ tracker_call_returns
    \/ Tick

SpecQuota == InitQuota /\ [][NextQuota]_vars

----------------------------------------------------------------------------
(* The usage specification: the same ledgers, record_usage and get_usage in *)
(* any order as time passes.                                                *)

NextUsage ==
    \/ \E k \in RecordKeys, c \in Costs : record_usage_begin(k, c)
    \/ save_quota_data_open
    \/ save_quota_data_dump
    \/ \E k \in Keys, d \in DaysArgs : get_usage_call(k, d)
    \/ tracker_call_returns
    \/ Tick

SpecUsage == InitQuota /\ [][NextUsage]_vars

----------------------------------------------------------------------------
(* The key-menu specification: the credential calls with manual removal.    *)

NextMenu ==
    \/ \E k \in Keys, o \in ProbeOutcomes : add_api_key(k, o)
    \/ rotate_api_key_begin
    \/ \E o \in ProbeOutcomes : rotate_api_key_step(o)
    \/ rotate_api_key_end
    \/ \E idx \in KeyNumbers : remove_api_key(idx)
    \/ remove_api_key_reset

SpecMenu == InitKeys /\ [][NextMenu]_vars

----------------------------------------------------------------------------
(* The search specification: one manager, the multi-term search run again   *)
(* and again at one instant; the used-items ledger is what earlier playlists *)
(* left, the soft counter is QuotaLeft units short of its ceiling.           *)

UsedLedgers == UNION {[S -> {"smart"}] : S \in SUBSET VideoIds}

SearchAnswers ==
    {[kind |-> "ok", items |-> i] : i \in SearchResponses}
        \cup {[kind |-> "HttpError", items |-> <<>>], [kind |-> "Exception", items |-> <<>>]}

InitSearch ==
    /\ \E used \in UsedLedgers : InitSearchSide(used, soft_limit - QuotaLeft)
    /\ InitKeySide
    /\ now = 0
    /\ pc = "idle"
    /\ last = [op |-> "init", arg |-> "", result |-> "", outcome |-> "none"]

NextSearch ==
    \/ \E m \in 1..MaxResultsArg : smart_search_begin(m)
    \/ smart_search_term
    \/ \E resp \in SearchAnswers : smart_search_order(resp)
    \/ \E r \in RemoteAnswers : smart_search_item(r)
    \/ YouTubeManager_init

SpecSearch == InitSearch /\ [][NextSearch]_vars

----------------------------------------------------------------------------
(* The cache specification: the advanced search run again and again while   *)
(* the clock advances, on a manager holding the one credential every new    *)
(* manager starts with; the used-items ledger is what earlier playlists     *)
(* left; the soft counter starts with room for one search and the details   *)
(* of one item. With one credential rotate_api_key returns False at line    *)
(* 78, so the retry body of lines 974-1011 is never entered.                *)

InitCache ==
    /\ \E used \in UsedLedgers :
          InitSearchSide(used, soft_limit - (search_cost + 2 * details_cost))
    /\ InitKeySide
    /\ now = 0
    /\ pc = "idle"
    /\ last = [op |-> "init", arg |-> "", result |-> "", outcome |-> "none"]

NextCache ==
    \/ \E q \in SearchQueries, sc \in SortChoices, dc \in DurationChoices,
          ch \in ChannelFilters : advanced_search_begin(q, sc, dc, ch)
    \/ \E rc \in ChannelAnswers : advanced_search_channel(rc)
    \/ \E resp \in AdvAnswers : advanced_search_call(resp)
    \/ \E r \in AdvDetailAnswers : advanced_search_item(r)
    \/ advanced_search_except
    \/ advanced_search_fallback
    \/ YouTubeManager_init
    \/ Tick

SpecCache == InitCache /\ [][NextCache]_vars

----------------------------------------------------------------------------
(* Claims on the credential specification *)

RotateReturned == last.op = "rotate" /\ last.result # ""
RotateRemoved == Len(api_keys) < Len(rot_start_keys)

\* C1: a rotate() call that removed one or more invalid credentials ends with
\* the active index a valid position of the remaining list, and no step of it
\* (the restore of the original index and the client rebuild included) indexes
\* outside the list.
C1_RotateIndexInBounds ==
    (RotateReturned /\ RotateRemoved) =>
        (last.result # "IndexError" /\ index_ok(api_keys, current_key_index))

\* an invalid-credential error, a quota error: what the probe's failure says
InvalidError(o) == o.kind = "HttpError" /\ is_invalid_text(o.text)
QuotaError(o) == o.kind = "HttpError" /\ is_quota_text(o.text)

\* C4: while and after a rotate() call, a credential of the starting list is
\* missing only if its own probe failed with an invalid-credential error; one
\* whose probe failed with a quota error or any other error, or that was not
\* probed, is still in the list, and nothing was added.
C4_ShrinkOnlyOnInvalid ==
    (last.op = "rotate") =>
        /\ Range(api_keys) \subseteq Range(rot_start_keys)
        /\ \A k \in Range(rot_start_keys) :
             /\ (k \notin Range(api_keys)) => InvalidError(probe_log[k])
             /\ (QuotaError(probe_log[k]) \/ ~InvalidError(probe_log[k]))
                    => k \in Range(api_keys)

\* witness of C4: a returned call that removed one credential and kept one
\* whose probe was rejected for quota
C4_Witness ==
    /\ RotateReturned
    /\ RotateRemoved
    /\ \E k \in Range(api_keys) : QuotaError(probe_log[k])

AddStep == last'.op = "add"
Charged == get_usage(quota_data', last'.arg, 1, now') - get_usage(quota_data, last'.arg, 1, now)

\* C8 as stated: every add_credential call for a candidate not in the list
\* raises the candidate's bucket for today (100 on success, 10000 on a quota
\* rejection); no such call leaves it unchanged.
C8_AlwaysCharges ==
    [][(AddStep /\ last'.arg \notin Range(api_keys)) =>
          /\ (last'.result = "True" => Charged = test_cost)
          /\ (last'.outcome = "quota" => Charged = daily_limit)
          /\ Charged > 0]_vars

\* C8 amended: such a call charges exactly 100 when the validation succeeds
\* and exactly 10000 when the probe is rejected for quota; when the low-quota
\* guard returns before the probe, or the probe fails with a non-quota
\* error, the bucket is unchanged.
C8_ChargesOnSuccessOrQuota ==
    [][(AddStep /\ last'.arg \notin Range(api_keys)) =>
          /\ (last'.result = "True" => Charged = test_cost)
          /\ (last'.outcome = "quota" => Charged = daily_limit /\ last'.result = "False")
          /\ (last'.outcome \in {"none", "invalid", "other", "exception"}
                 => Charged = 0 /\ last'.result = "False")]_vars

\* witness of C8: a candidate just rejected for quota, holding the ceiling
C8_Witness ==
    /\ last.op = "add" /\ last.outcome = "quota" /\ last.result = "False"
    /\ last.arg \notin Range(api_keys)
    /\ get_usage(quota_data, last.arg, 1, now) >= daily_limit

\* C9: add_credential reports success exactly when the candidate was not in
\* the list and its probe succeeded; then the candidate is the last element
\* and the persisted list equals the list in memory; on every failure the
\* list, the persisted list and the active index are unchanged.
C9_AddFrame ==
    [][AddStep =>
          /\ (last'.result = "True") <=>
                 (last'.arg \notin Range(api_keys) /\ last'.outcome = "ok")
          /\ (last'.result = "True") =>
                 /\ api_keys' = Append(api_keys, last'.arg)
                 /\ api_keys_file' = FileOf(api_keys')
                 /\ current_key_index' = current_key_index
          /\ (last'.result # "True") =>
                 UNCHANGED <<api_keys, api_keys_file, current_key_index>>]_vars

\* witness of C9: a successful add onto a list of two
C9_Witness ==
    /\ last.op = "add" /\ last.result = "True"
    /\ Len(api_keys) = 3 /\ api_keys[3] = last.arg
    /\ api_keys_file = FileOf(api_keys)

\* the persisted list with the bootstrap credential appended when absent
PersistedPlusBootstrap ==
    IF api_keys_file.exists
    THEN IF BootstrapKey \in Range(api_keys_file.data) THEN api_keys_file.data
         ELSE Append(api_keys_file.data, BootstrapKey)
    ELSE <<BootstrapKey>>

\* C10: at startup the credential list is the persisted list plus the
\* bootstrap credential, so a credential persisted by one run is in the list
\* of the next.
C10_StartupLoadsPersisted ==
    (last.op = "init") => api_keys = PersistedPlusBootstrap

----------------------------------------------------------------------------
(* Claims about the multi-term search *)

\* the details the search holds for an identifier it has looked at
DetailsHeld(c, video_id) == c.video_details_cache[video_id].details

\* C2: the list smart_search accumulates and returns never holds an
\* identifier that was in the used-items ledger when the run started, and
\* never holds the same identifier twice, whatever the remote answers.
C2_NoUsedNoDuplicate ==
    /\ \A i \in 1..Len(all_video_ids) : all_video_ids[i] \notin DOMAIN used_videos
    /\ \A i, j \in 1..Len(all_video_ids) : i # j => all_video_ids[i] # all_video_ids[j]

\* a used identifier was offered by the remote and skipped, in a run that
\* has accepted another identifier
C2_Witness ==
    /\ pc = "ss_item"
    /\ item_i > 0
    /\ items[item_i] \in DOMAIN used_videos
    /\ Len(all_video_ids) > 0

SearchReturned == last.op = "smart_search" /\ last.result = "returned"

\* C3: when check_quota first fails in a run after N identifiers were
\* accepted (and then keeps failing, the clock standing still), the run
\* returns exactly those N identifiers.
C3_QuotaFailureReturnsAccepted ==
    (SearchReturned /\ quota_failed_at # -1) => Len(all_video_ids) = quota_failed_at

\* the title contains an excluded keyword, letter case ignored
contains_excluded_keyword(title) ==
    \E exc \in exclude_keywords : str_in(lower(exc), lower(title))

\* C6: an identifier whose title contains an excluded keyword as a
\* case-insensitive substring is never in the accepted list.
C6_ExcludedTitleNeverAccepted ==
    \A i \in 1..Len(all_video_ids) :
        all_video_ids[i] \in DOMAIN cache.video_details_cache
            => ~contains_excluded_keyword(DetailsHeld(cache, all_video_ids[i]).title)

\* a step of the item loop that looks at a new candidate and obtains details
CandidateStep ==
    /\ pc = "ss_item"
    /\ item_i' = item_i + 1
    /\ not_seen(items[item_i + 1], used_videos, all_video_ids)
    /\ items[item_i + 1] \in DOMAIN cache'.video_details_cache

\* C7: the duration lower bound is inclusive: a new candidate that the title
\* filters pass is accepted when its duration equals min_duration_seconds,
\* and a candidate one second shorter is never accepted.
C7_DurationBoundInclusive ==
    [][CandidateStep =>
          LET video_id == items[item_i + 1]
              d == DetailsHeld(cache', video_id)
          IN /\ (/\ d.duration = min_duration_seconds
                 /\ ~title_excluded(d.title)
                 /\ title_is_music(d.title))
                    => all_video_ids' = Append(all_video_ids, video_id)
             /\ d.duration = min_duration_seconds - 1
                    => all_video_ids' = all_video_ids]_vars

\* one identifier of exactly the minimum duration is in the list while
\* another, one second shorter, has been looked at and left out
C7_Witness ==
    /\ \E v \in Range(all_video_ids) :
           DetailsHeld(cache, v).duration = min_duration_seconds
    /\ \E w \in DOMAIN cache.video_details_cache :
           /\ DetailsHeld(cache, w).duration = min_duration_seconds - 1
           /\ w \notin Range(all_video_ids)
           /\ w \notin DOMAIN used_videos

----------------------------------------------------------------------------
(* Claims about the response cache *)

\* C5: on every path that reads the response cache (video details, channel
\* names, advanced-search results and the fallback after a failed search)
\* the value of an entry is taken only while the entry's age is below the
\* cache lifetime.
C5_ExpiredEntriesAbsent ==
    cache_read.path # "none" => cache_read.age < cache_duration

----------------------------------------------------------------------------
(* Claims about the credential list under manual removal *)

\* C11: after any sequence of add, manual remove and rotate operations the
\* credential list is non-empty and the active index is a position of the
\* list.
C11_ActiveIndexInBounds ==
    pc = "idle" => (Len(api_keys) >= 1 /\ index_ok(api_keys, current_key_index))

----------------------------------------------------------------------------
(* Claims about what rotate_api_key reports *)

\* the credentials whose probe succeeded in the last rotate call
RotateSucceeded == {k \in Keys : probe_log[k].kind = "ok"}

\* C12: rotate() reports success exactly when a probe of the call succeeded;
\* then the active index designates the credential whose probe succeeded, the
\* client is bound to it, the persisted list equals the list in memory, and
\* no candidate is probed after the first success (a call still in its loop
\* has seen no success, and a finished one at most one).
C12_SuccessIffProbeSucceeded ==
    /\ (last.op = "rotate" /\ pc = "rotate") => RotateSucceeded = {}
    /\ RotateReturned =>
         /\ (last.result = "True") <=> (RotateSucceeded # {})
         /\ (last.result = "True") =>
              /\ index_ok(api_keys, current_key_index)
              /\ RotateSucceeded = {api_keys[current_key_index + 1]}
              /\ youtube = api_keys[current_key_index + 1]
              /\ api_keys_file = FileOf(api_keys)

\* a rotate call that succeeded on its second candidate, after a failed probe
C12_Witness ==
    /\ RotateReturned
    /\ last.result = "True"
    /\ current_key_index >= 1
    /\ \E k \in Keys : probe_log[k].kind \notin {"none", "ok"}

\* the credential that was active when the last rotate call began
RotateActiveBefore == rot_start_keys[original_index + 1]

\* C13: when rotate() reports failure, the credential active after the call
\* is the one that was active before it, provided that credential was not
\* itself removed as invalid, also when other credentials were removed.
C13_FailureKeepsActiveCredential ==
    (/\ RotateReturned
     /\ last.result = "False"
     /\ Len(rot_start_keys) > 1
     /\ RotateActiveBefore \in Range(api_keys)) =>
        (/\ index_ok(api_keys, current_key_index)
         /\ api_keys[current_key_index + 1] = RotateActiveBefore
         /\ youtube = RotateActiveBefore)

----------------------------------------------------------------------------
(* Claims about the quota ledger *)

\* the value of a day bucket, 0 when the credential or the bucket is missing
Bucket(qd, k, d) == IF k \in DOMAIN qd /\ d \in DOMAIN qd[k] THEN qd[k][d] ELSE 0

\* every day key a bucket of the ledger can carry
AllDayKeys == OldDayKeys \cup {strftime(t) : t \in TimePoints}

RECURSIVE SumRecorded(_, _, _)
\* the costs a log of record_usage calls holds for credential k and day d
SumRecorded(log, k, d) ==
    IF log = <<>> THEN 0
    ELSE (IF Head(log)[1] = k /\ Head(log)[3] = d THEN Head(log)[2] ELSE 0)
         + SumRecorded(Tail(log), k, d)

RecordedKeys == {recorded[i][1] : i \in 1..Len(recorded)}

\* C14: every bucket equals what it held before the record_usage calls plus
\* the sum of the costs recorded for its credential on its day (a missing
\* bucket counting as 0), so the calls of one day accumulate in the
\* credential's bucket of that day and leave other credentials' buckets and
\* other days' buckets as they were.
C14_BucketsAccumulate ==
    /\ \A k \in Keys, d \in AllDayKeys :
         Bucket(quota_data, k, d) = Bucket(ledger_base, k, d) + SumRecorded(recorded, k, d)
    /\ \A k \in DOMAIN quota_data : DOMAIN quota_data[k] \subseteq AllDayKeys
    /\ \A k \in Keys \ RecordedKeys :
         /\ (k \in DOMAIN quota_data) <=> (k \in DOMAIN ledger_base)
         /\ (k \in DOMAIN quota_data) => (quota_data[k] = ledger_base[k])

\* two calls for one credential on one day completed, with different costs,
\* beside buckets of another credential and of earlier days
C14_Witness ==
    /\ pc = "idle"
    /\ Len(recorded) = 2
    /\ recorded[1][1] = recorded[2][1]
    /\ recorded[1][3] = recorded[2][3]
    /\ recorded[1][2] # recorded[2][2]
    /\ Cardinality(DOMAIN ledger_base) = 2
    /\ quota_file = FileOf(quota_data)

\* the costs recorded for credential k on the current day
CostsToday(k) ==
    {recorded[i][2] : i \in {j \in 1..Len(recorded) :
                                recorded[j][1] = k /\ recorded[j][3] = strftime(now)}}

\* C15: with the non-negative costs of Costs and no clean_old_data since,
\* get_usage(key, 1) is at least every single cost recorded for the key
\* today, and get_usage(key, days) >= get_usage(key, days - 1) for days >= 1.
C15_UsageMonotone ==
    \A k \in Keys :
        /\ \A c \in CostsToday(k) : get_usage(quota_data, k, 1, now) >= c
        /\ \A days \in 1..MaxWindow :
             get_usage(quota_data, k, days, now) >= get_usage(quota_data, k, days - 1, now)

\* two costs recorded today for a credential that also has an older bucket
\* inside the window
C15_Witness ==
    /\ pc = "idle"
    /\ Cardinality(CostsToday(BootstrapKey)) = 2
    /\ get_usage(quota_data, BootstrapKey, 2, now) > get_usage(quota_data, BootstrapKey, 1, now)
    /\ get_usage(quota_data, BootstrapKey, 1, now) > test_cost

RECURSIVE SumBuckets(_, _, _, _)
\* the sum, over a set of day ordinals, of a credential's buckets
SumBuckets(qd, k, days_set, acc) ==
    IF days_set = {} THEN acc
    ELSE LET d == CHOOSE x \in days_set : TRUE
         IN SumBuckets(qd, k, days_set \ {d}, acc + Bucket(qd, k, <<"ymd", d>>))

\* today and the days - 1 days before it
Window(days, t) == {(t \div SecondsPerDay) - i : i \in 0..(days - 1)}

GetUsageStep == last'.op = "get_usage"

\* C16: get_usage(credential, days) returns the sum of the credential's
\* buckets for today and the days - 1 days before it, a missing bucket
\* counting as 0; it returns 0 for an unknown credential and for days <= 0;
\* it never modifies the ledger, in memory or on disk.
C16_GetUsageIsWindowSum ==
    [][GetUsageStep =>
         LET k == tracker_call'.api_key
             days == tracker_call'.days
         IN /\ tracker_call'.total = SumBuckets(quota_data, k, Window(days, now), 0)
            /\ (k \notin DOMAIN quota_data \/ days <= 0) => tracker_call'.total = 0
            /\ quota_data' = quota_data
            /\ quota_file' = quota_file]_vars

\* a call whose window holds today's bucket, a bucket of an earlier day and a
\* day without bucket
C16_Witness ==
    /\ pc = "tracker_return"
    /\ last.op = "get_usage"
    /\ tracker_call.days = MaxWindow
    /\ tracker_call.total > Bucket(quota_data, tracker_call.api_key, strftime(now))
    /\ Bucket(quota_data, tracker_call.api_key, strftime(now)) > 0
    /\ \E d \in Window(MaxWindow, now) : <<"ymd", d>> \notin DOMAIN quota_data[tracker_call.api_key]

CleanStep == last'.op = "clean"

\* C17: clean_old_data(days_to_keep) deletes exactly the day buckets whose
\* key parses as a date earlier than now - days_to_keep days, leaves the
\* buckets with a malformed key and the newer ones as they were, drops the
\* credentials left without bucket and keeps every credential that still
\* has one.
C17_CleanDeletesExactlyOld ==
    [][CleanStep =>
         LET cutoff == now - tracker_call'.days * SecondsPerDay
             Old(d) == Len(d) = 2 /\ d[1] = "ymd" /\ d[2] * SecondsPerDay < cutoff
         IN /\ \A k \in DOMAIN quota_data : \A d \in DOMAIN quota_data[k] :
                  IF Old(d)
                  THEN ~(k \in DOMAIN quota_data' /\ d \in DOMAIN quota_data'[k])
                  ELSE /\ k \in DOMAIN quota_data'
                       /\ d \in DOMAIN quota_data'[k]
                       /\ quota_data'[k][d] = quota_data[k][d]
            /\ \A k \in DOMAIN quota_data' :
                  /\ k \in DOMAIN quota_data
                  /\ DOMAIN quota_data'[k] # {}
                  /\ DOMAIN quota_data'[k] \subseteq DOMAIN quota_data[k]]_vars

\* a clean that deleted the oldest bucket and kept the bucket that starts
\* exactly at the cutoff, the malformed one, and the credential whose only
\* bucket is malformed
C17_Witness ==
    /\ pc = "tracker_return"
    /\ last.op = "clean"
    /\ now - tracker_call.days * SecondsPerDay = Yesterday[2] * SecondsPerDay
    /\ DOMAIN quota_data = RecordKeys
    /\ DOMAIN quota_data[BootstrapKey] = {Yesterday, <<"bad">>}
    /\ DOMAIN quota_data["K1"] = {<<"bad">>}

\* ledger `a` holds every bucket of ledger `b`, with at least its value
Contains(a, b) ==
    \A k \in DOMAIN b :
        /\ k \in DOMAIN a
        /\ \A d \in DOMAIN b[k] : d \in DOMAIN a[k] /\ a[k][d] >= b[k][d]

\* C18: after record_usage returns, the persisted ledger equals the one in
\* memory; and if the process stops inside record_usage, the ledger the next
\* run loads still holds the effect of every call completed before.
C18_CompletedCallsSurviveCrash ==
    /\ pc = "idle" => load_quota_data(quota_file) = quota_data
    /\ pc = "crashed" => Contains(load_quota_data(quota_file), ledger_done)

----------------------------------------------------------------------------
(* Claims about the used-items ledger and the playlists *)

\* the used-items ledger as the file holds it
UsedNow == DOMAIN load_used_videos(used_videos_file)

\* C19: the advanced search never accepts an identifier present in the
\* used-items ledger: at no point of a search does the list of accepted
\* identifiers, of the advanced or of the multi-term search, hold an
\* identifier the ledger marks as used.
C19_UsedNeverAccepted ==
    \A v \in Range(video_ids) \cup Range(all_video_ids) : v \notin UsedNow

\* C20: an advanced-search playlist is built only from at least
\* results_threshold identifiers, and the identifiers it is built from are
\* then in the used-items ledger.
C20_PlaylistOnlyAtThreshold ==
    playlist # <<>> =>
        (Len(playlist) >= results_threshold /\ Range(playlist) \subseteq UsedNow)

----------------------------------------------------------------------------
(* Claims about the multi-term search: title terms and remote calls *)

\* the title contains an include keyword or a music indicator, letter case
\* ignored
contains_music_term(title) ==
    \E kw \in include_keywords \cup music_indicators : str_in(lower(kw), lower(title))

\* C25: every identifier the multi-term search accepts has a title that
\* contains an include keyword or a music-indicator term as a
\* case-insensitive substring.
C25_AcceptedTitleHasMusicTerm ==
    \A v \in Range(all_video_ids) :
        /\ v \in DOMAIN cache.video_details_cache
        /\ contains_music_term(DetailsHeld(cache, v).title)

\* one identifier was accepted while another, long enough and free of
\* excluded keywords but with a title matching no term, was looked at and
\* left out
C25_Witness ==
    /\ all_video_ids # <<>>
    /\ \E w \in DOMAIN cache.video_details_cache :
           /\ ~contains_music_term(DetailsHeld(cache, w).title)
           /\ DetailsHeld(cache, w).duration >= min_duration_seconds
           /\ w \notin Range(all_video_ids)
           /\ w \notin DOMAIN used_videos

\* a multi-term search run is under way
SearchRunning == pc \in {"ss_term", "ss_order", "ss_item"}

\* the step issues the remote search call: it is answered with a response
\* whose items the run then walks, or it raises out of the run
SearchAnswered == pc = "ss_order" /\ pc' \in {"ss_item", "crashed"}

\* the step issues the remote search call and the call raises HttpError: the
\* order loop is left although neither loop guard ended it
SearchFailed ==
    /\ pc = "ss_order"
    /\ pc' = "ss_term"
    /\ order_i < Len(orders)
    /\ Len(all_video_ids) < max_results

\* C27: every remote call made on a cache miss is preceded by a quota check
\* that succeeded and charged the call's cost: a step that issues the search
\* call of the multi-term loop raises the soft counter by search_cost.
C27_RemoteCallsAreCharged ==
    [][(SearchAnswered \/ SearchFailed) =>
          cache'.quota_used >= cache.quota_used + search_cost]_vars

\* C28: once check_quota has returned false inside a multi-term search run,
\* the run issues no further remote search call.
C28_QuotaFailureStopsRemoteCalls ==
    [][(SearchRunning /\ quota_failed_at # -1) => ~(SearchAnswered \/ SearchFailed)]_vars

\* C29: when the search call for a (term, order) pair fails with a remote
\* error and the term has a ranking order left, the run goes on with the
\* next ranking order of the same term.
C29_ErrorContinuesWithNextOrder ==
    [][(SearchFailed /\ order_i + 1 < Len(orders)) =>
          (term_i' = term_i /\ pc' = "ss_order" /\ order_i' = order_i + 1)]_vars

\* the step takes the details of a candidate, from the cache or the remote
DetailsLooked == pc = "ss_item" /\ (cache' # cache \/ cache_read' # cache_read)

----------------------------------------------------------------------------
(* Claims about the ring walk of rotate_api_key *)

\* C26: when a rotate() call over two or more credentials reports failure,
\* every credential that remains in the list was probed in the call,
\* the one that follows a removed invalid credential included.
C26_FailureProbedEveryCredential ==
    (RotateReturned /\ last.result = "False" /\ Len(rot_start_keys) > 1) =>
        \A k \in Range(api_keys) : probe_log[k] # NoProbe

----------------------------------------------------------------------------
(* C24: a credential whose validation was rejected for quota is unusable    *)
(* for the rest of the day.  The specification alternates add_api_key      *)
(* calls with restarts and with the clock advancing.                        *)

NextDay ==
    \/ \E k \in RecordKeys, o \in ProbeOutcomes : add_api_key(k, o)
    \/ YouTubeManager_init
    \/ Tick

SpecDay == InitKeys /\ [][NextDay]_vars

\* a step that is an add_api_key(k) call
AddCall(k) == last'.op = "add" /\ last'.arg = k

SameDay == now' \div SecondsPerDay = now \div SecondsPerDay

Exhausted(k) == remaining_today(quota_data, k, now) = 0

\* C24: an add_api_key(k) whose probe is rejected for quota leaves
\* remaining_today of k at 0; while the day lasts it stays 0 whatever is
\* called; and every add_api_key(k) in that state returns False without a
\* probe and leaves the credential list as it was.
C24_QuotaRejectionExhaustsDay ==
    [][\A k \in Keys :
        /\ (AddCall(k) /\ last'.outcome = "quota") =>
               remaining_today(quota_data', k, now') = 0
        /\ (Exhausted(k) /\ SameDay) => remaining_today(quota_data', k, now') = 0
        /\ (Exhausted(k) /\ AddCall(k)) =>
               /\ last'.outcome = "none"
               /\ last'.result = "False"
               /\ api_keys' = api_keys
               /\ api_keys_file' = api_keys_file]_vars

\* a later add_api_key of a credential that is out of quota for the day and
\* not in the list has returned False without a probe
C24_Witness ==
    /\ last.op = "add"
    /\ last.outcome = "none"
    /\ last.result = "False"
    /\ last.arg \notin Range(api_keys)
    /\ now > 0
    /\ remaining_today(quota_data, last.arg, now) = 0

----------------------------------------------------------------------------
(* The playlist specification: URLs built, playlists saved and deleted by   *)
(* name while the clock advances.                                           *)

NextPlaylists ==
    \/ \E ids \in IdLists : create_youtube_playlist_url_call(ids)
    \/ \E n \in PlaylistNames, ids \in SavedLists :
          save_playlist(n, create_youtube_playlist_url(ids), ids)
    \/ \E n \in PlaylistNames : delete_playlist(n)
    \/ YouTubeManager_init
    \/ Tick

SpecPlaylists == InitKeys /\ [][NextPlaylists]_vars

\* C21: the URL returned for a list of identifiers is empty for the empty
\* list, the watch address of the identifier for a list of one, and for two
\* or more the batch address followed by every identifier of the list, in
\* the list's order and as often as the list holds it, with a comma between
\* neighbours and nothing else.
C21_UrlListsIdsInOrder ==
    pl_call.op = "url" =>
        LET ids == pl_call.video_ids
            url == pl_call.url
            n == Len(ids)
        IN /\ n = 0 => url = <<>>
           /\ n = 1 => url = <<WatchPrefix, ids[1]>>
           /\ n >= 2 =>
                 /\ Len(url) = 2 * n
                 /\ url[1] = BatchPrefix
                 /\ \A i \in 1..n : url[2 * i] = ids[i]
                 /\ \A i \in 1..(n - 1) : url[2 * i + 1] = ","

\* the URL of a list that holds one identifier twice has been built
C21_Witness ==
    /\ pl_call.op = "url"
    /\ Len(pl_call.video_ids) >= 2
    /\ pl_call.video_ids[1] = pl_call.video_ids[2]
    /\ Len(pl_call.url) = 2 * Len(pl_call.video_ids)

\* a step that is the call `op(name)`
PlaylistCall(op, name) == last'.op = op /\ last'.arg = name

\* C22: save_playlist(name, url, ids) leaves under `name` exactly the record
\* of url, ids, the time of the call and no last-played time, whatever was
\* stored under the name before, and every other name's record as it was;
\* delete_playlist(name) returns True and removes that name alone when the
\* store holds it, and returns False leaving the file as it was otherwise.
C22_SaveReplacesDeleteRemovesOne ==
    [][\A name \in PlaylistNames :
        LET old == get_saved_playlists(playlists_file)
            new == get_saved_playlists(playlists_file')
        IN /\ PlaylistCall("save_playlist", name) =>
                 /\ DOMAIN new = DOMAIN old \cup {name}
                 /\ new[name] = [url |-> pl_call'.url, video_ids |-> pl_call'.video_ids,
                                 created_at |-> isoformat(now), last_played |-> "None"]
                 /\ \A other \in DOMAIN old \ {name} : new[other] = old[other]
           /\ PlaylistCall("delete_playlist", name) =>
                 IF name \in DOMAIN old
                 THEN /\ last'.result = "True"
                      /\ DOMAIN new = DOMAIN old \ {name}
                      /\ \A other \in DOMAIN new : new[other] = old[other]
                 ELSE /\ last'.result = "False"
                      /\ playlists_file' = playlists_file]_vars

\* a playlist has been saved under a name while the store holds another
\* name's record of an earlier time and of other identifiers
C22_Witness ==
    /\ last.op = "save_playlist"
    /\ LET store == get_saved_playlists(playlists_file)
       IN /\ last.arg \in DOMAIN store
          /\ store[last.arg].created_at = isoformat(now)
          /\ \E other \in DOMAIN store \ {last.arg} :
                /\ store[other].created_at # isoformat(now)
                /\ store[other].video_ids # store[last.arg].video_ids

----------------------------------------------------------------------------
(* The history specification: the multi-term search run again and again,    *)
(* the history of used items cleared in between.                            *)

NextHistory ==
    \/ smart_search_begin(MaxResultsArg)
    \/ smart_search_term
    \/ \E resp \in SearchAnswers : smart_search_order(resp)
    \/ \E r \in RemoteAnswers : smart_search_item(r)
    \/ clear_search_history
    \/ YouTubeManager_init

\* every identifier is in the ledger that earlier playlists left
InitHistory ==
    /\ InitSearchSide([v \in VideoIds |-> "smart"], soft_limit - QuotaLeft)
    /\ InitKeySide
    /\ now = 0
    /\ pc = "idle"
    /\ last = [op |-> "init", arg |-> "", result |-> "", outcome |-> "none"]

SpecHistory == InitHistory /\ [][NextHistory]_vars

ClearCall == last'.op = "clear_search_history"

\* C23: clear_search_history leaves no used-items file, so that
\* load_used_videos returns the empty ledger; with no file to remove it
\* changes nothing; and a multi-term search begun after it runs with the
\* empty ledger, under which no identifier is excluded as used.
C23_ClearMakesEveryIdEligible ==
    [][/\ ClearCall =>
            /\ ~used_videos_file'.exists
            /\ load_used_videos(used_videos_file') = EmptyDict
            /\ ~used_videos_file.exists =>
                   UNCHANGED <<used_videos_file, playlists_file, cacheVars, keySide, ssVars>>
       /\ (history_cleared.done /\ pc = "idle" /\ pc' = "ss_term") =>
            /\ used_videos' = EmptyDict
            /\ \A v \in VideoIds : not_seen(v, used_videos', all_video_ids')
       /\ (history_cleared.done /\ SearchRunning) => used_videos' = EmptyDict]_vars

\* a multi-term search has accepted an identifier that was in the ledger
\* clear_search_history removed
C23_Witness ==
    \E v \in Range(all_video_ids) : v \in DOMAIN history_cleared.ledger

----------------------------------------------------------------------------
(* C35: rotate_api_key terminates.  The loop is run to its end: a pass      *)
(* through the loop body, and the code after the loop, happen when they can. *)

SpecKeysFair ==
    /\ InitKeys
    /\ [][NextMenu]_vars
    /\ WF_vars(\E o \in ProbeOutcomes : rotate_api_key_step(o))
    /\ WF_vars(rotate_api_key_end)

\* the credentials probed so far in the running or last rotate call
Probed == {k \in Keys : probe_log[k] # NoProbe}

\* C35: a rotate_api_key call that is running returns (or raises), and at no
\* point has it probed more credentials than the list held when it began.
C35_RotateTerminates ==
    /\ [](Cardinality(Probed) <= Len(rot_start_keys))
    /\ (pc = "rotate") ~> (pc # "rotate")

\* a call that began with three credentials has returned after probing all
\* three, one of them removed as invalid
C35_Witness ==
    /\ RotateReturned
    /\ Len(rot_start_keys) = 3
    /\ Cardinality(Probed) = 3
    /\ Len(api_keys) = 2

----------------------------------------------------------------------------
\* C36: rotate_api_key never leaves the credential list empty, and never
\* returns through the `len(self.api_keys) == 0` branch of lines 123-125.
C36_RotateKeepsOneCredential ==
    /\ Len(api_keys) >= 1
    /\ ~(last.op = "rotate" /\ last.result = "False" /\ last.outcome = "invalid")

\* a call that began with three credentials has returned with one left,
\* every credential it probed reported invalid
C36_Witness ==
    /\ RotateReturned
    /\ Len(rot_start_keys) = 3
    /\ Len(api_keys) = 1
    /\ \A k \in Probed : probe_class(probe_log[k]) = "invalid"

----------------------------------------------------------------------------
\* C37: whenever no call is running, the client handle is bound to the
\* credential at the active index of the credential list.
C37_HandleBoundToActiveCredential ==
    pc = "idle" =>
        /\ index_ok(api_keys, current_key_index)
        /\ youtube = api_keys[current_key_index + 1]

----------------------------------------------------------------------------
(* The soft-quota specification: check_quota called again and again while   *)
(* the clock advances, on an installation made at any instant with the soft *)
(* counter anywhere from 0 to near its ceiling.                             *)

Units == {details_cost, search_cost, daily_limit}

check_quota_call(u) ==
    /\ pc = "idle"
    /\ LET q == check_quota(cache, u, now)
       IN /\ cache' = q.cache
          /\ cache_file' = IF q.cache # cache THEN FileOf(q.cache) ELSE cache_file
          /\ Done("check_quota", u, IF q.ok THEN "True" ELSE "False", "none")
    /\ UNCHANGED <<now, peer_quota_data, pc, keySide, used_videos_file, plVars, ssVars, advSide>>

InitSoftQuota ==
    /\ now \in TimePoints
    /\ \E used0 \in {0, soft_limit - search_cost, soft_limit - QuotaLeft} :
          InitSearchSideAt(EmptyDict, used0, now)
    /\ InitKeySide
    /\ pc = "idle"
    /\ last = [op |-> "init", arg |-> "", result |-> "", outcome |-> "none"]

NextSoftQuota ==
    \/ \E u \in Units : check_quota_call(u)
    \/ Tick

SpecSoftQuota == InitSoftQuota /\ [][NextSoftQuota]_vars

CheckCall == last'.op = "check_quota"
Elapsed == now - cache.last_quota_reset

\* C32: the soft counter never passes the soft ceiling; a check_quota(u)
\* made less than 24 hours after the last reset returns False and leaves the
\* cache as it was when the counter plus u would pass the ceiling, and
\* otherwise returns True and raises the counter by u, the time of the last
\* reset unchanged.
C32_SoftCounterBelowCeiling ==
    [][/\ cache.quota_used <= soft_limit => cache'.quota_used <= soft_limit
       /\ (CheckCall /\ Elapsed < SecondsPerDay) =>
             IF cache.quota_used + last'.arg > soft_limit
             THEN /\ last'.result = "False"
                  /\ cache' = cache
             ELSE /\ last'.result = "True"
                  /\ cache'.quota_used = cache.quota_used + last'.arg
                  /\ cache'.last_quota_reset = cache.last_quota_reset]_vars

\* a single unit has been refused with the counter at the ceiling itself
C32_Witness ==
    /\ last.op = "check_quota"
    /\ last.result = "False"
    /\ last.arg = details_cost
    /\ cache.quota_used = soft_limit

\* C38: a check_quota(u) made 24 hours or more after the last reset returns
\* True for every u, leaves the counter at 0 and the time of the last reset
\* at now; one made earlier leaves the time of the last reset as it was, also
\* when the calendar day has changed since.
C38_ResetAfterTwentyFourHours ==
    [][CheckCall =>
          IF Elapsed >= 24 * 60 * 60
          THEN /\ last'.result = "True"
               /\ cache'.quota_used = 0
               /\ cache'.last_quota_reset = now
          ELSE cache'.last_quota_reset = cache.last_quota_reset]_vars

\* a request above the ceiling has been granted by a reset, the counter at 0
C38_Witness ==
    /\ last.op = "check_quota"
    /\ last.arg = daily_limit
    /\ last.result = "True"
    /\ cache.quota_used = 0
    /\ cache.last_quota_reset = now
    /\ now > 0

----------------------------------------------------------------------------
(* The lookup specification: get_video_details and get_channel_id called    *)
(* directly, MaxLookups times in all, while the clock advances; the soft    *)
(* counter starts with room for one channel search and the details of two   *)
(* items.                                                                    *)

MaxLookups == 3

ChannelNames == {<<"c">>, <<"d">>}

\* get_video_details(video_id)
get_video_details_call(video_id, r) ==
    /\ pc = "idle"
    /\ searches_begun < MaxLookups
    /\ searches_begun' = searches_begun + 1
    /\ LET g == get_video_details(cache, video_id, now, r)
       IN /\ cache' = g.cache
          /\ cache_file' = IF g.cache # cache THEN FileOf(g.cache) ELSE cache_file
          /\ cache_read' = IF cached_details(cache, video_id, now).found
                           THEN details_read(cache, video_id, now) ELSE NoRead
          /\ Done("get_video_details", video_id, g.details,
                  IF g.called THEN "called" ELSE IF g.denied THEN "denied" ELSE "none")
    /\ UNCHANGED <<now, peer_quota_data, pc, keySide, used_videos_file, plVars, ssVars, cache_key,
                   duration_choice, channel_filter, video_ids, video_details_list,
                   response_items, response_i, error_str, retry, retry_log, playlist, rot_caller>>

\* get_channel_id(channel_name)
get_channel_id_call(channel_name, rc) ==
    /\ pc = "idle"
    /\ searches_begun < MaxLookups
    /\ searches_begun' = searches_begun + 1
    /\ LET g == get_channel_id(cache, channel_name, now, rc)
           q == check_quota(cache, search_cost, now)
       IN /\ cache' = g.cache
          /\ cache_file' = IF g.cache # cache THEN FileOf(g.cache) ELSE cache_file
          /\ cache_read' = IF g.hit
                           THEN ReadOf("channel_cache",
                                       cache.channel_cache[channel_name].timestamp, now)
                           ELSE NoRead
          /\ Done("get_channel_id", channel_name, g.channel_id,
                  IF g.hit THEN "none" ELSE IF q.ok THEN "called" ELSE "denied")
    /\ UNCHANGED <<now, peer_quota_data, pc, keySide, used_videos_file, plVars, ssVars, cache_key,
                   duration_choice, channel_filter, video_ids, video_details_list,
                   response_items, response_i, error_str, retry, retry_log, playlist, rot_caller>>

InitLookup ==
    /\ InitSearchSide(EmptyDict, soft_limit - (search_cost + 2 * details_cost))
    /\ InitKeySide
    /\ now = 0
    /\ pc = "idle"
    /\ last = [op |-> "init", arg |-> "", result |-> "", outcome |-> "none"]

NextLookup ==
    \/ \E v \in VideoIds, r \in RemoteAnswers : get_video_details_call(v, r)
    \/ \E n \in ChannelNames, rc \in ChannelAnswers : get_channel_id_call(n, rc)
    \/ Tick

SpecLookup == InitLookup /\ [][NextLookup]_vars

\* a step that is the call `op(arg)`
LookupCall(op, arg) == last'.op = op /\ last'.arg = arg

\* the entry `key` of the namespace `ns` is held and younger than the lifetime
Unexpired(ns, key) == key \in DOMAIN ns /\ now - ns[key].timestamp < cache_duration

\* C33: a lookup of a video identifier (of a channel name) that has an
\* unexpired cache entry returns the entry's value without a remote call and
\* leaves the cache, its file and the quota ledger as they were; any other
\* lookup asks check_quota, and the value it fetches remotely is in the cache
\* afterwards, stamped with the time of the call.
C33_CachedLookupHasNoEffect ==
    [][/\ \A v \in VideoIds : LookupCall("get_video_details", v) =>
             IF Unexpired(cache.video_details_cache, v)
             THEN /\ last'.result = cache.video_details_cache[v].details
                  /\ last'.outcome = "none"
                  /\ UNCHANGED <<cache, cache_file, quota_data, quota_file>>
             ELSE /\ last'.outcome # "none"
                  /\ (last'.outcome = "called" /\ last'.result.found) =>
                        /\ v \in DOMAIN cache'.video_details_cache
                        /\ cache'.video_details_cache[v] =
                               [details |-> last'.result, timestamp |-> now]
       /\ \A n \in ChannelNames : LookupCall("get_channel_id", n) =>
             IF Unexpired(cache.channel_cache, n)
             THEN /\ last'.result = cache.channel_cache[n].channel_id
                  /\ last'.outcome = "none"
                  /\ UNCHANGED <<cache, cache_file, quota_data, quota_file>>
             ELSE /\ last'.outcome # "none"
                  /\ (last'.outcome = "called" /\ last'.result # NoChannel) =>
                        /\ n \in DOMAIN cache'.channel_cache
                        /\ cache'.channel_cache[n] =
                               [channel_id |-> last'.result, timestamp |-> now]]_vars

\* the details of an identifier fetched earlier have been returned from the
\* cache at a later instant, nothing charged for it
C33_Witness ==
    /\ last.op = "get_video_details"
    /\ last.outcome = "none"
    /\ last.result.found
    /\ cache_read.path = "video_details_cache"
    /\ cache_read.age > 0
    /\ cache.quota_used = soft_limit - (search_cost + 2 * details_cost) + details_cost

----------------------------------------------------------------------------
(* The fault specification: playlists saved and deleted, the write of the   *)
(* playlists file failing at open() or inside json.dump in some calls.      *)

FaultPoints == {"open", "dump"}

\* the file after a write that failed at `at`
failed_write(file, at) == IF at = "open" THEN file ELSE TornFile

\* save_playlist(name, url, video_ids), the write of lines 487-488 raising
\* OSError: the handler of lines 490-491 prints and the call returns None
save_playlist_fault(name, url, ids, at) ==
    /\ pc = "idle"
    /\ playlists_file' = failed_write(ensure_file(playlists_file), at)
    /\ used_videos_file' = ensure_file(used_videos_file)
    /\ pl_call' = [op |-> "save", name |-> name, video_ids |-> ids, url |-> url]
    /\ Done("save_playlist", name, "None", "write fault")
    /\ UNCHANGED <<now, peer_quota_data, pc, keySide, cacheVars, history_cleared, ssVars, advSide>>

\* delete_playlist(name), the write of lines 508-509 raising OSError, which
\* nothing between the method and the interpreter catches
delete_playlist_fault(name, at) ==
    /\ pc = "idle"
    /\ name \in DOMAIN get_saved_playlists(playlists_file)
    /\ playlists_file' = failed_write(playlists_file, at)
    /\ pl_call' = [op |-> "delete", name |-> name, video_ids |-> <<>>, url |-> <<>>]
    /\ pc' = "crashed"
    /\ Done("delete_playlist", name, "OSError", "write fault")
    /\ UNCHANGED <<now, peer_quota_data, keySide, cacheVars, used_videos_file, history_cleared, ssVars,
                   advSide>>

NextFaults ==
    \/ \E n \in PlaylistNames, ids \in SavedLists :
          save_playlist(n, create_youtube_playlist_url(ids), ids)
    \/ \E n \in PlaylistNames, ids \in SavedLists, at \in FaultPoints :
          save_playlist_fault(n, create_youtube_playlist_url(ids), ids, at)
    \/ \E n \in PlaylistNames : delete_playlist(n)
    \/ \E n \in PlaylistNames, at \in FaultPoints : delete_playlist_fault(n, at)
    \/ YouTubeManager_init
    \/ Tick

SpecFaults == InitKeys /\ [][NextFaults]_vars

\* C34: a call in which the write of a backing file fails ends by raising the
\* error; none returns as a call whose write succeeded does.
C34_WriteFaultPropagates ==
    [][last'.outcome = "write fault" => last'.result = "OSError"]_vars

----------------------------------------------------------------------------
\* C39: for n >= 1, clean_old_data(n) leaves get_usage(credential, n) of
\* every credential as it was: it deletes no bucket of the n-day window.
C39_CleanKeepsUsageWindow ==
    [][(CleanStep /\ tracker_call'.days >= 1) =>
          \A k \in Keys :
              /\ get_usage(quota_data', k, tracker_call'.days, now)
                     = get_usage(quota_data, k, tracker_call'.days, now)
              /\ \A d \in Window(tracker_call'.days, now) :
                     Bucket(quota_data', k, <<"ymd", d>>) = Bucket(quota_data, k, <<"ymd", d>>)]_vars

\* a sweep with a horizon of two days or more has deleted the oldest bucket
\* of a credential and left one of an earlier day that is inside the window
C39_Witness ==
    /\ pc = "tracker_return"
    /\ last.op = "clean"
    /\ tracker_call.days >= 2
    /\ BootstrapKey \in DOMAIN quota_data
    /\ strftime(0 - 2 * SecondsPerDay) \notin DOMAIN quota_data[BootstrapKey]
    /\ Yesterday \in DOMAIN quota_data[BootstrapKey]
    /\ Yesterday[2] \in Window(tracker_call.days, now)

----------------------------------------------------------------------------
(* The shared-file specification: two processes, each with the ledger it    *)
(* loaded when it started, record usage into the one quota file.  The first *)
(* process's save is followed step by step, the second's goes through       *)
(* between any two of those steps.                                          *)

\* record_usage working on the ledger read back from the file
writer_copy_reloaded(mem, file) == load_quota_data(file)

\* record_usage, lines 31-37: the ledger updated and written is self.quota_data
writer_copy(mem, file) == mem

\* record_usage(api_key, cost) in the second process, with its save
peer_record_usage(api_key, cost) ==
    /\ pc \in {"idle", "record_save", "record_dump"}
    /\ records_begun < MaxRecords
    /\ records_begun' = records_begun + 1
    /\ peer_quota_data' =
           record_usage(writer_copy(peer_quota_data, quota_file), api_key, cost, now)
    /\ quota_file' = FileOf(peer_quota_data')
    /\ recorded' = Append(recorded, <<api_key, cost, strftime(now)>>)
    /\ Done("peer_record", api_key, "None", "none")
    /\ UNCHANGED <<now, pc, keyVars, quota_data, tracker_call, ledger_base, ledger_done,
                   rotVars, searchSide, advSide>>

NextShared ==
    \/ \E k \in RecordKeys, c \in Costs : record_usage_begin(k, c)
    \/ save_quota_data_open
    \/ save_quota_data_dump
    \/ \E k \in RecordKeys, c \in Costs : peer_record_usage(k, c)
    \/ Tick

SpecShared == InitQuota /\ [][NextShared]_vars

\* C40: a completed save leaves in the file the writer's own ledger and
\* nothing else: the second process's call writes what it held at its start
\* plus the cost recorded, the first process's save writes its quota_data,
\* whatever the other process had written to the file before.
C40_FileHoldsLastWriterOnly ==
    [][/\ (last'.op = "peer_record" /\ Len(recorded') = Len(recorded) + 1) =>
             LET call == recorded'[Len(recorded')]
             IN \A k \in Keys, d \in AllDayKeys :
                   Bucket(quota_file'.data, k, d) =
                       Bucket(peer_quota_data, k, d)
                           + (IF k = call[1] /\ d = call[3] THEN call[2] ELSE 0)
       /\ (pc = "record_dump" /\ pc' = "idle") => quota_file' = FileOf(quota_data)]_vars

\* both processes have completed a record_usage call, and a bucket of the
\* file holds less than it held at the start plus the costs recorded for it
C40_Witness ==
    /\ pc = "idle"
    /\ quota_file.exists /\ ~is_torn(quota_file)
    /\ quota_data # ledger_base
    /\ peer_quota_data # ledger_base
    /\ \E k \in Keys, d \in AllDayKeys :
          Bucket(quota_file.data, k, d) < Bucket(ledger_base, k, d) + SumRecorded(recorded, k, d)

----------------------------------------------------------------------------
(* The retry specification: the advanced search on a manager to which a     *)
(* second and a third credential can be added, so that the rotate loop of   *)
(* lines 969-1014 is entered and its retried searches are made.             *)

\* advanced searches followed through their retries
MaxRetrySearches == 1

RetryKeys == Keys \ {BootstrapKey}
\* what a probe of the rotate loop answers here: success, a quota error, an
\* invalid-key error
RetryProbes == {o \in ProbeOutcomes :
                   o.kind # "Exception" /\ Len(o.text) \in {0, 10, 13}}

NextRetry ==
    \/ \E k \in RetryKeys : add_api_key(k, ProbeOk)
    \/ \E q \in SearchQueries, sc \in SortChoices, dc \in DurationChoices :
          searches_begun < MaxRetrySearches /\ advanced_search_begin(q, sc, dc, <<>>)
    \/ \E resp \in AdvAnswers : advanced_search_call(resp)
    \/ \E r \in AdvDetailAnswers : advanced_search_item(r)
    \/ advanced_search_except
    \/ \E o \in RetryProbes : rotate_api_key_step(o)
    \/ rotate_api_key_end
    \/ \E resp \in AdvAnswers : advanced_search_retry_call(resp)
    \/ \E r \in AdvDetailAnswers : advanced_search_retry_item(r)
    \/ advanced_search_fallback

SpecRetry == InitKeys /\ [][NextRetry]_vars

\* a step in which the advanced search calls rotate_api_key
RotationAttempt == retry_log'.rotations = retry_log.rotations + 1
\* a step in which the advanced search makes the search call of a retry
RetriedCall == retry_log'.calls = retry_log.calls + 1
\* a step in which the advanced search returns to the menu
AdvancedSearchReturns == pc # "idle" /\ pc' = "idle" /\ last'.op = "advanced_search"

\* C31: one advanced search calls rotate_api_key at most 3 times and makes
\* at most 3 retried search calls.  The first rotation follows a quota-type
\* error of the search; a later one follows a retried search that gave no
\* result or a quota-type error, never one that gave results, a rotation
\* that returned False, or an error of another type.  A retried search
\* follows a rotation that returned True.  A search that returns after a
\* rotation without results from a retry has printed its failure (line 1016).
C31_BoundedRetries ==
    /\ [](retry_log.rotations <= max_retries /\ retry_log.calls <= max_retries)
    /\ [][/\ RotationAttempt =>
                /\ video_ids = <<>>
                /\ retry_log.rotations = 0 => is_quota_text(error_str)
                /\ retry_log.rotations > 0 =>
                      last.op = "retry_search" /\ last.outcome # "other"
          /\ RetriedCall => last.op = "rotate" /\ last.result = "True"
          /\ (AdvancedSearchReturns /\ retry_log.rotations > 0) =>
                IF pc = "adv_retry_item" THEN video_ids # <<>> /\ last'.result = "retried"
                ELSE last'.result = "failed"]_vars

\* three rotations and three retried searches were made, none gave results,
\* and the search is about to print its failure
C31_Witness ==
    /\ pc = "adv_fallback"
    /\ retry_log.rotations = max_retries
    /\ retry_log.calls = max_retries

====
